---- MODULE Spec2Model ----
(***************************************************************************)
(* Model of the application resolution engine of vaakya:                   *)
(*   src/src/app/agent/operations/app_operations.py  (AppOperations)       *)
(*   src/src/app/agent/working_agent.py              (WorkingAgent)        *)
(*   src/src/app/config/settings.py                  (AppOperationsSettings)*)
(*                                                                         *)
(* A Python str is a sequence of one-character strings.  An Optional value *)
(* is a set: {} is None and {v} is the value v.                            *)
(***************************************************************************)
EXTENDS Integers, Sequences, FiniteSets, TLC

(***************************************************************************)
(* AppOperationsSettings                                                   *)
(***************************************************************************)
FUZZY_THRESHOLD == 40
SHORT_APP_NAME_THRESHOLD == 6
MIN_WORD_LENGTH_FOR_PARTIAL_MATCH == 3
FUZZY_MATCH_THRESHOLD == 70
BONUS_APP_NAME_LENGTH == 15
PENALTY_APP_NAME_LENGTH == 30

(***************************************************************************)
(* str methods used by find_app_fuzzy                                      *)
(***************************************************************************)
UpperLetters ==
  <<"A","B","C","D","E","F","G","H","I","J","K","L","M",
    "N","O","P","Q","R","S","T","U","V","W","X","Y","Z">>

LowerLetters ==
  <<"a","b","c","d","e","f","g","h","i","j","k","l","m",
    "n","o","p","q","r","s","t","u","v","w","x","y","z">>

LowerChar(c) ==
  IF \E i \in 1..26 : UpperLetters[i] = c
    THEN LowerLetters[CHOOSE i \in 1..26 : UpperLetters[i] = c]
    ELSE c

IsSpace(c) == c \in {" ", "\t", "\n"}

\* str.lower()
lower(s) == [i \in 1..Len(s) |-> LowerChar(s[i])]

\* str.strip(): drop leading and trailing whitespace
strip(s) ==
  LET keep == {i \in 1..Len(s) : ~IsSpace(s[i])}
  IN  IF keep = {} THEN << >>
      ELSE LET lo == CHOOSE i \in keep : \A j \in keep : i <= j
               hi == CHOOSE i \in keep : \A j \in keep : j <= i
           IN  SubSeq(s, lo, hi)

\* str.split(): the maximal runs of non-whitespace characters, in order
RECURSIVE SplitFrom(_, _, _, _)
SplitFrom(s, i, cur, acc) ==
  IF i > Len(s)
    THEN IF cur = << >> THEN acc ELSE Append(acc, cur)
    ELSE IF IsSpace(s[i])
           THEN SplitFrom(s, i + 1, << >>,
                          IF cur = << >> THEN acc ELSE Append(acc, cur))
           ELSE SplitFrom(s, i + 1, Append(cur, s[i]), acc)

split(s) == SplitFrom(s, 1, << >>, << >>)

\* str.startswith(prefix)
startswith(s, prefix) ==
  /\ Len(prefix) <= Len(s)
  /\ SubSeq(s, 1, Len(prefix)) = prefix

\* sub in s   (substring test on str)
contains(s, sub) ==
  \E i \in 0..(Len(s) - Len(sub)) : SubSeq(s, i + 1, i + Len(sub)) = sub

\* w in words  (membership in a list of str)
InWords(w, words) == \E i \in 1..Len(words) : words[i] = w

(***************************************************************************)
(* int((a / b) * k) in IEEE double arithmetic.  For 0 <= a <= b <= 256 and *)
(* k in {50, 100} the truncation equals the exact floor except for the     *)
(* ratios whose double product falls just below an integer.                *)
(***************************************************************************)
FloatScale(a, b, k) ==
  LET exact == (a * k) \div b
      short == \/ (50 * a = 29 * b)
               \/ (k = 100 /\ 100 * a = 29 * b)
               \/ (k = 100 /\ 100 * a = 57 * b)
  IN  IF short THEN exact - 1 ELSE exact

(***************************************************************************)
(* fuzz.ratio(s1, s2) of fuzzywuzzy: 100 for equal strings, 0 when one is  *)
(* empty, otherwise int(round(100 * 2M/T)) with M the number of matched    *)
(* characters (longest common subsequence) and T the total length.         *)
(***************************************************************************)
MaxOf(S) == CHOOSE v \in S : \A w \in S : w <= v

\* one row of the dynamic programme after the character c of s1; a row holds
\* the columns 0..Len(s2) at the positions 1..Len(s2)+1
LcsNextRow(s2, c, prev) ==
  SubSeq([j \in 1..(Len(s2) + 1) |->
            MaxOf({prev[j]} \cup
                  {prev[k] + 1 : k \in {k \in 1..(j - 1) : s2[k] = c}})],
         1, Len(s2) + 1)

RECURSIVE LcsRows(_, _, _, _)
LcsRows(s1, s2, i, prev) ==
  \* Len(prev) is read so that each row is computed before the next one
  IF i > Len(s1) \/ Len(prev) = 0 THEN prev[Len(s2) + 1]
  ELSE LcsRows(s1, s2, i + 1, LcsNextRow(s2, s1[i], prev))

Lcs(s1, s2) == LcsRows(s1, s2, 1, [j \in 1..(Len(s2) + 1) |-> 0])

\* Python 3 round(): round half to even
RoundHalfEven(num, den) ==
  LET q == num \div den
      r == num % den
  IN  IF 2 * r < den THEN q
      ELSE IF 2 * r > den THEN q + 1
      ELSE IF q % 2 = 0 THEN q ELSE q + 1

fuzz_ratio(s1, s2) ==
  IF s1 = s2 THEN 100
  ELSE IF Len(s1) = 0 \/ Len(s2) = 0 THEN 0
  ELSE RoundHalfEven(200 * Lcs(s1, s2), Len(s1) + Len(s2))

(***************************************************************************)
(* AppOperations.find_app_fuzzy: the score of one app for one query        *)
(***************************************************************************)
\* lines 291-304: the number of query words that are a whole word of the app
word_matches(query_words, app_words) ==
  Cardinality({i \in 1..Len(query_words) : InWords(query_words[i], app_words)})

\* the count of partial word matches left out
partial_matches_none(query_words, app_words) == 0

\* lines 296-304: the number of the other query words that are a prefix of an
\* app word, or that start with an app word of at least the minimum length
partial_matches(query_words, app_words) ==
  Cardinality({i \in 1..Len(query_words) :
     /\ ~InWords(query_words[i], app_words)
     /\ \/ \E k \in 1..Len(app_words) : startswith(app_words[k], query_words[i])
        \/ \E k \in 1..Len(app_words) :
              /\ Len(app_words[k]) >= MIN_WORD_LENGTH_FOR_PARTIAL_MATCH
              /\ startswith(query_words[i], app_words[k])})

\* lines 286-316: Priority 7, word-based matching with the fuzzy fallback
word_based_score(query_lower, query_words, app_lower, app_words) ==
  LET wm == word_matches(query_words, app_words)
      pm == partial_matches(query_words, app_words)
      fz == fuzz_ratio(query_lower, app_lower)
  IN  IF wm > 0 THEN 600 + (wm * 100) + (pm * 25)
      ELSE IF pm > 0 THEN 400 + (pm * 50)
      ELSE IF fz >= FUZZY_MATCH_THRESHOLD THEN fz + 200
      ELSE 0

\* the if/elif chain with the weight of the whole-word match put below the
\* weights of the prefix match
base_score_word_below_prefix(query_lower, query_words, app_lower, app_words) ==
  IF query_lower = app_lower THEN 1000
  ELSE IF InWords(query_lower, app_words) THEN 890
  ELSE IF startswith(app_lower, query_lower)
    THEN 900 + FloatScale(Len(query_lower), Len(app_lower), 50)
  ELSE IF \E k \in 1..Len(app_words) : startswith(app_words[k], query_lower)
    THEN 850
  ELSE IF /\ Len(app_lower) <= SHORT_APP_NAME_THRESHOLD
          /\ contains(query_lower, app_lower)
    THEN 800
  ELSE IF contains(app_lower, query_lower)
    THEN 700 + FloatScale(Len(query_lower), Len(app_lower), 100)
  ELSE word_based_score(query_lower, query_words, app_lower, app_words)

\* lines 256-316: the if/elif chain of the priorities
base_score(query_lower, query_words, app_lower, app_words) ==
  IF query_lower = app_lower THEN 1000
  ELSE IF InWords(query_lower, app_words) THEN 950
  ELSE IF startswith(app_lower, query_lower)
    THEN 900 + FloatScale(Len(query_lower), Len(app_lower), 50)
  ELSE IF \E k \in 1..Len(app_words) : startswith(app_words[k], query_lower)
    THEN 850
  ELSE IF /\ Len(app_lower) <= SHORT_APP_NAME_THRESHOLD
          /\ contains(query_lower, app_lower)
    THEN 800
  ELSE IF contains(app_lower, query_lower)
    THEN 700 + FloatScale(Len(query_lower), Len(app_lower), 100)
  ELSE word_based_score(query_lower, query_words, app_lower, app_words)

\* lines 318-323: bonus for shorter app names
with_bonus(score, app_lower) ==
  IF score > 0 /\ Len(app_lower) <= BONUS_APP_NAME_LENGTH
    THEN score + 10 ELSE score

\* lines 325-327: penalty for very long app names, int(score * 0.9)
with_penalty(score, app_lower) ==
  IF Len(app_lower) > PENALTY_APP_NAME_LENGTH
    THEN (score * 9) \div 10 ELSE score

\* lines 249-327: the final score of app for the raw query
final_score(query, app) ==
  LET query_lower == strip(lower(query))
      query_words == split(query_lower)
      app_lower   == strip(lower(app))
      app_words   == split(app_lower)
  IN  with_penalty(
        with_bonus(base_score(query_lower, query_words, app_lower, app_words),
                   app_lower),
        app_lower)

\* the acceptance test with the comparison to best_score left out
accepts_without_best(score, best_score, threshold) ==
  score >= threshold

\* the acceptance test with the threshold comparison left out
accepts_without_threshold(score, best_score, threshold) ==
  score > best_score

\* line 329: the acceptance test of one candidate inside the loop
accepts(score, best_score, threshold) ==
  score > best_score /\ score >= threshold

\* lines 246-333: the loop over the dict keys in insertion order; the result
\* is the pair best_match (an Optional name), best_score
RECURSIVE best_from(_, _, _, _, _)
best_from(names, i, query, threshold, best) ==
  IF i > Len(names) THEN best
  ELSE LET sc == final_score(query, names[i])
       IN  best_from(names, i + 1, query, threshold,
             IF accepts(sc, best.score, threshold)
               THEN [match |-> {names[i]}, score |-> sc]
               ELSE best)

best_match_of(names, query, threshold) ==
  best_from(names, 1, query, threshold, [match |-> {}, score |-> 0])

(***************************************************************************)
(* Launch methods.  The outcome of one subprocess call is drawn from       *)
(* Outcomes: exit code 0, a non-zero exit code, subprocess.TimeoutExpired, *)
(* or OSError (missing executable).  A chain returns                       *)
(*   [status |-> "returned" or "raised", bool |-> the returned value,      *)
(*    attempted |-> the methods run, in order, each with its success].     *)
(***************************************************************************)
Outcomes == {"ok", "nonzero", "timeout", "oserror"}

Returned(b, att) == [status |-> "returned", bool |-> b, attempted |-> att]
Raised(att)      == [status |-> "raised", bool |-> FALSE, attempted |-> att]

Tried(att, m, o) == Append(att, [method |-> m, ok |-> (o = "ok")])

\* subprocess.Popen does not wait for the child: it fails only with OSError
PopenOk(o) == o # "oserror"
TriedPopen(att, m, o) == Append(att, [method |-> m, ok |-> PopenOk(o)])

\* _launch_macos_app, lines 335-352: only TimeoutExpired is handled
launch_macos_app(out) ==
  LET att == Tried(<< >>, "open -a", out[1])
  IN  IF out[1] = "ok" THEN Returned(TRUE, att)
      ELSE IF out[1] = "nonzero" THEN Returned(FALSE, att)
      ELSE IF out[1] = "timeout" THEN Returned(FALSE, att)
      ELSE Raised(att)

\* _launch_linux_app, line 356-360: the command list
linux_commands == <<"gtk-launch", "direct", "nohup">>

\* _launch_linux_app, line 374: the exceptions the loop handles
linux_handled == {"timeout", "oserror"}

\* _launch_linux_app, lines 362-378: the loop over the commands
RECURSIVE linux_loop(_, _, _)
linux_loop(i, out, att) ==
  IF i > Len(linux_commands) THEN Returned(FALSE, att)
  ELSE LET att2 == Tried(att, linux_commands[i], out[i])
       IN  IF out[i] = "ok" THEN Returned(TRUE, att2)
           ELSE IF out[i] = "nonzero" THEN linux_loop(i + 1, out, att2)
           ELSE IF out[i] \in linux_handled THEN linux_loop(i + 1, out, att2)
           ELSE Raised(att2)

\* _launch_linux_app running its command list again after a failed pass
launch_linux_app_second_pass(out) ==
  LET r == linux_loop(1, out, << >>)
  IN  IF r.status = "returned" /\ ~r.bool
        THEN linux_loop(1, out, r.attempted)
        ELSE r

launch_linux_app(out) == linux_loop(1, out, << >>)

\* _launch_windows_app, lines 465-472: Method 6 inside the outer try
windows_final(out, att) ==
  LET att2 == TriedPopen(att, "explorer", out[3])
  IN  IF PopenOk(out[3]) THEN Returned(TRUE, att2) ELSE Returned(FALSE, att2)

\* _launch_windows_app, lines 411-418: explorer shell:appsFolder fallback
windows_appid_fallback(out, att) ==
  LET att2 == TriedPopen(att, "explorer shell:appsFolder", out[2])
  IN  IF PopenOk(out[2]) THEN Returned(TRUE, att2) ELSE windows_final(out, att2)

\* str.endswith(suffix)
endswith(s, suffix) ==
  /\ Len(suffix) <= Len(s)
  /\ SubSeq(s, Len(s) - Len(suffix) + 1, Len(s)) = suffix

DotExe == <<".", "e", "x", "e">>
DotLnk == <<".", "l", "n", "k">>

AppIdPrefix   == <<"a", "p", "p", "i", "d", ":">>
PackagePrefix == <<"p", "a", "c", "k", "a", "g", "e", ":">>
DrivePrefixes == {<<"C", ":", "\\">>, <<"c", ":", "\\">>}

\* a launch descriptor is [kind, id, src, direct]: kind "raw" carries the
\* text of a name in id; the other kinds are the descriptors discovery
\* builds ("appid:<id>", "package:<family>", the path of a .lnk, a path)
IsAppId(path) ==
  path.kind = "appid" \/ (path.kind = "raw" /\ startswith(path.id, AppIdPrefix))

IsPackage(path) ==
  path.kind = "package" \/ (path.kind = "raw" /\ startswith(path.id, PackagePrefix))

\* line 390: app_id.startswith(("C:\\", "c:\\"))
IsDirectAppId(path) ==
  IF path.kind = "raw"
    THEN \E d \in DrivePrefixes :
           startswith(SubSeq(path.id, Len(AppIdPrefix) + 1, Len(path.id)), d)
    ELSE path.direct

\* the tests of app_path in _launch_windows_app, lines 384, 421, 442, 448,
\* 456; fs is what Path(app_path) is on disk
windows_branch(path, fs) ==
  IF IsAppId(path) THEN "appid"
  ELSE IF IsPackage(path) THEN "package"
  ELSE IF (path.kind = "exe" \/ (path.kind = "raw" /\ endswith(path.id, DotExe)))
          /\ fs # "missing" THEN "exe"
  ELSE IF (path.kind = "lnk" \/ (path.kind = "raw" /\ endswith(path.id, DotLnk)))
          /\ fs # "missing" THEN "lnk"
  ELSE IF fs \in {"dir", "dir_exe"} THEN "dir"
  ELSE "other"

\* _launch_windows_app, lines 380-472
launch_windows_app(path, fs, out) ==
  LET br == windows_branch(path, fs)
  IN  IF br = "appid" THEN
        IF IsDirectAppId(path)
          THEN LET att == TriedPopen(<< >>, "Popen app_id", out[1])
               IN  IF PopenOk(out[1]) THEN Returned(TRUE, att)
                   ELSE windows_appid_fallback(out, att)
          ELSE LET att == Tried(<< >>, "powershell Start-Process", out[1])
               IN  IF out[1] \in {"ok", "nonzero"}
                     THEN Returned(out[1] = "ok", att)
                     ELSE windows_appid_fallback(out, att)
      ELSE IF br = "package" THEN
        LET att == Tried(<< >>, "powershell Start-Process", out[1])
        IN  IF out[1] \in {"ok", "nonzero"}
              THEN Returned(out[1] = "ok", att)
              ELSE windows_final(out, att)
      ELSE IF br = "exe" THEN
        LET att == TriedPopen(<< >>, "Popen exe", out[1])
        IN  Returned(PopenOk(out[1]), att)
      ELSE IF br = "lnk" THEN
        LET att == TriedPopen(<< >>, "cmd /c start", out[1])
        IN  Returned(PopenOk(out[1]), att)
      ELSE IF br = "dir" /\ fs = "dir_exe" THEN
        LET att == TriedPopen(<< >>, "Popen exe in dir", out[1])
        IN  IF PopenOk(out[1]) THEN Returned(TRUE, att)
            ELSE windows_final(out, att)
      ELSE windows_final(out, << >>)

(***************************************************************************)
(* Names, queries and indexes the model draws its inputs from              *)
(***************************************************************************)
S_empty      == << >>
S_blank      == <<" ", " ">>
S_code       == <<"c", "o", "d", "e">>
S_Code_sp    == <<"C", "o", "d", "e", " ">>
S_calc       == <<"c", "a", "l", "c">>
S_calculator == <<"c", "a", "l", "c", "u", "l", "a", "t", "o", "r">>
S_open_calc  == <<"o", "p", "e", "n", " ", "c", "a", "l", "c">>
S_vs_code    == <<"v", "i", "s", "u", "a", "l", " ", "s", "t", "u", "d", "i", "o",
                  " ", "c", "o", "d", "e">>
S_calc_code  == <<"c", "a", "l", "c", " ", "c", "o", "d", "e">>
S_vs_code_short == <<"v", "s", " ", "c", "o", "d", "e">>
S_xyz        == <<"x", "y", "z">>
S_firefox    == <<"f", "i", "r", "e", "f", "o", "x">>
S_firefx     == <<"f", "i", "r", "e", "f", "x">>
S_go_to_my_pc_now == <<"g", "o", " ", "t", "o", " ", "m", "y", " ", "p", "c",
                        " ", "n", "o", "w">>
S_now_my_pc_go_to == <<"n", "o", "w", " ", "m", "y", " ", "p", "c", " ", "g", "o",
                        " ", "t", "o">>

\* a descriptor as discovery stores it (see IsAppId)
Desc(kind, name, src, direct) ==
  [kind |-> kind, id |-> name, src |-> src, direct |-> direct]

\* the raw text handed to a launcher in place of a descriptor
RawPath(text) == Desc("raw", text, 0, FALSE)

Systems == {"darwin", "linux", "windows", "other"}

\* the descriptors the platform's discovery can store for a name
\* (_discover_macos_apps, _discover_linux_apps, _discover_windows_apps):
\* "code" can be found in either of two places, the other names in one
DescsFor(sys, name) ==
  IF sys = "darwin" \/ sys = "linux"
    THEN IF name = S_code
           THEN {Desc("path", name, 1, FALSE), Desc("path", name, 2, FALSE)}
           ELSE {Desc("path", name, 1, FALSE)}
  ELSE IF sys = "windows"
    THEN IF name = S_code
           THEN {Desc("appid", name, 1, FALSE), Desc("package", name, 2, FALSE)}
           ELSE {Desc("lnk", name, 3, FALSE)}
  ELSE {}

EntriesFor(sys, names) ==
  UNION {{[name |-> n, path |-> d] : d \in DescsFor(sys, n)} : n \in names}

\* a dict name -> descriptor in insertion order: a sequence of entries with
\* distinct names
IndicesOf(sys, names, maxlen) ==
  UNION {{idx \in [1..k -> EntriesFor(sys, names)] :
            \A i, j \in 1..k : i # j => idx[i].name # idx[j].name} :
         k \in 0..maxlen}

Keys(idx) == [i \in 1..Len(idx) |-> idx[i].name]

HasKey(idx, name) == \E i \in 1..Len(idx) : idx[i].name = name

Lookup(idx, name) == idx[CHOOSE i \in 1..Len(idx) : idx[i].name = name].path

\* bool(self._app_cache): None and the empty dict are both false
Truthy(cache) == \E idx \in cache : Len(idx) > 0

MaxApps  == 1
MaxScoreApps == 2

Threads == {"t1", "t2"}

ConcNames      == {S_code, S_calc}
ConcQueries    == {S_code, S_blank}
ConcThresholds == {FUZZY_THRESHOLD}

ScoreNames      == {S_code, S_vs_code, S_calculator, S_firefox,
                    S_go_to_my_pc_now, S_now_my_pc_go_to, S_calc_code,
                    S_vs_code_short}
ScoreQueries    == {S_code, S_Code_sp, S_open_calc, S_calc, S_firefx, S_xyz,
                    S_go_to_my_pc_now, S_blank, S_empty}
ScoreThresholds == {FUZZY_THRESHOLD, 900, 1011}

(***************************************************************************)
(* app_launcher/launcher.py: helpers of the index built at module load     *)
(***************************************************************************)
Digits == <<"0","1","2","3","4","5","6","7","8","9">>

\* a character matched by \w
IsWordChar(c) ==
  \/ \E i \in 1..26 : LowerLetters[i] = c \/ UpperLetters[i] = c
  \/ \E i \in 1..10 : Digits[i] = c
  \/ c = "_"

\* " ".join(words)
RECURSIVE JoinFrom(_, _)
JoinFrom(words, i) ==
  IF i > Len(words) THEN << >>
  ELSE IF i = Len(words) THEN words[i]
  ELSE words[i] \o <<" ">> \o JoinFrom(words, i + 1)

\* normalize_name, lines 27-33: lower-case, strip, runs of whitespace
\* collapsed to one space
normalize_name(name) ==
  IF name = << >> THEN << >>
  ELSE JoinFrom(split(strip(lower(name))), 1)

\* re.findall(r"\w+", s): the maximal runs of word characters, in order
RECURSIVE FindWordsFrom(_, _, _, _)
FindWordsFrom(s, i, cur, acc) ==
  IF i > Len(s)
    THEN IF cur = << >> THEN acc ELSE Append(acc, cur)
    ELSE IF IsWordChar(s[i])
           THEN FindWordsFrom(s, i + 1, Append(cur, s[i]), acc)
           ELSE FindWordsFrom(s, i + 1, << >>,
                              IF cur = << >> THEN acc ELSE Append(acc, cur))

\* tokens_of, lines 35-37: the set of word tokens of the normalized text
tokens_of(text) ==
  LET runs == FindWordsFrom(normalize_name(text), 1, << >>, << >>)
  IN  {runs[k] : k \in 1..Len(runs)}

\* str.replace(" ", "")
no_space(s) == SelectSeq(s, LAMBDA c : c # " ")

\* os.path.basename on Windows: what follows the last separator
basename(path) ==
  LET seps == {i \in 1..Len(path) : path[i] \in {"\\", "/"}}
  IN  IF seps = {} THEN path ELSE SubSeq(path, MaxOf(seps) + 1, Len(path))

\* os.path.splitext(b)[0]: what precedes the last dot, unless the dot only
\* follows leading dots
splitext_root(b) ==
  LET dots == {i \in 1..Len(b) : b[i] = "."}
  IN  IF dots = {} THEN b
      ELSE LET k == MaxOf(dots)
           IN  IF \E j \in 1..(k - 1) : b[j] # "." THEN SubSeq(b, 1, k - 1)
               ELSE b

\* lines 100-101: exe_basename of an app path
exe_basename_of(path) ==
  LET base == IF path # << >> THEN basename(path) ELSE << >>
  IN  IF base # << >> THEN splitext_root(base) ELSE << >>

\* lines 99-108: the item of one entry of installed_apps
app_item(e) ==
  [name |-> normalize_name(e.name),
   path |-> e.path,
   type |-> "app",
   tokens |-> tokens_of(normalize_name(e.name)),
   exe_basename |-> normalize_name(exe_basename_of(e.path))]

\* the aliases of an app without its full normalized name
app_aliases_without_name(e) ==
  LET norm_name == normalize_name(e.name)
      exe_basename == exe_basename_of(e.path)
  IN  (IF exe_basename # << >> THEN {normalize_name(exe_basename)} ELSE {})
        \cup {no_space(norm_name)}
        \cup (IF exe_basename # << >>
                THEN {no_space(normalize_name(exe_basename))} ELSE {})
        \cup UNION {{t, no_space(t)} : t \in {u \in tokens_of(norm_name) : Len(u) > 1}}

\* lines 112-126: the aliases of an app
app_aliases(e) ==
  LET norm_name == normalize_name(e.name)
      exe_basename == exe_basename_of(e.path)
  IN  {norm_name}
        \cup (IF exe_basename # << >> THEN {normalize_name(exe_basename)} ELSE {})
        \cup {no_space(norm_name)}
        \cup (IF exe_basename # << >>
                THEN {no_space(normalize_name(exe_basename))} ELSE {})
        \cup UNION {{t, no_space(t)} : t \in {u \in tokens_of(norm_name) : Len(u) > 1}}

\* lines 136-142 and 159-165: the item of a folder or of a sub-folder
folder_item(norm, path) ==
  [name |-> norm, path |-> path, type |-> "folder",
   tokens |-> tokens_of(norm), exe_basename |-> << >>]

\* lines 146-149 and 166-169: the aliases of a folder or of a sub-folder
folder_aliases(norm) ==
  {norm, no_space(norm)} \cup {t \in tokens_of(norm) : Len(t) > 1}

\* os.path.join(path, sub)
path_join(path, sub) == path \o <<"\\">> \o sub

\* the orders in which "for a in aliases" can visit a set
Orders(S) ==
  {f \in [1..Cardinality(S) -> S] :
     \A i, j \in 1..Cardinality(S) : i # j => f[i] # f[j]}

EmptyIndex ==
  [items |-> << >>, candidate_labels |-> << >>, candidate_to_item |-> << >>]

\* lines 109-110 and 128-130 (143-144 and 151-153, 158-159 and 170-172):
\* the item is appended, then one label per alias with the item's index
append_item(st, item, aliases) ==
  {[items |-> Append(st.items, item),
    candidate_labels |-> st.candidate_labels \o ord,
    candidate_to_item |-> st.candidate_to_item
                            \o [k \in 1..Len(ord) |-> Len(st.items)]] :
     ord \in Orders(aliases)}

\* lines 98-130: the loop over installed_apps.items()
RECURSIVE index_apps(_, _, _)
index_apps(entries, i, sts) ==
  IF i > Len(entries) THEN sts
  ELSE index_apps(entries, i + 1,
         UNION {append_item(st, app_item(entries[i]), app_aliases(entries[i])) :
                  st \in sts})

\* lines 156-172: the loop over the immediate child folders of one folder
RECURSIVE index_subfolders(_, _, _, _)
index_subfolders(path, subs, k, sts) ==
  IF k > Len(subs) THEN sts
  ELSE index_subfolders(path, subs, k + 1,
         UNION {append_item(st,
                            folder_item(normalize_name(subs[k]),
                                        path_join(path, subs[k])),
                            folder_aliases(normalize_name(subs[k]))) :
                  st \in sts})

\* lines 134-172: the loop over user_folders.items()
RECURSIVE index_folders(_, _, _)
index_folders(folders, i, sts) ==
  IF i > Len(folders) THEN sts
  ELSE index_folders(folders, i + 1,
         index_subfolders(folders[i].path, folders[i].folders, 1,
           UNION {append_item(st,
                              folder_item(normalize_name(folders[i].name),
                                          folders[i].path),
                              folder_aliases(normalize_name(folders[i].name))) :
                    st \in sts}))

(***************************************************************************)
(* app_launcher/scanner/folders.py                                         *)
(***************************************************************************)
F_desktop   == <<"d", "e", "s", "k", "t", "o", "p">>
F_documents == <<"d", "o", "c", "u", "m", "e", "n", "t", "s">>
F_downloads == <<"d", "o", "w", "n", "l", "o", "a", "d", "s">>
F_music     == <<"m", "u", "s", "i", "c">>
F_videos    == <<"v", "i", "d", "e", "o", "s">>
F_pictures  == <<"p", "i", "c", "t", "u", "r", "e", "s">>

\* get_user_folders, lines 35-40: the keys in the order of the lookups
WellKnown ==
  <<F_desktop, F_documents, F_downloads, F_music, F_videos, F_pictures>>

WellKnownSet == {WellKnown[i] : i \in 1..Len(WellKnown)}

\* get_user_folders, line 44
fallback_folders ==
  <<<<"D", "e", "s", "k", "t", "o", "p">>,
    <<"D", "o", "c", "u", "m", "e", "n", "t", "s">>,
    <<"D", "o", "w", "n", "l", "o", "a", "d", "s">>,
    <<"P", "i", "c", "t", "u", "r", "e", "s">>,
    <<"V", "i", "d", "e", "o", "s">>,
    <<"M", "u", "s", "i", "c">>>>

SpecialRoot == <<"C", ":", "\\", "U", "s", "e", "r", "s", "\\", "u", "\\">>
HomeRoot    == <<"C", ":", "\\", "h", "o", "m", "e", "\\">>

\* get_special_folder_path, lines 14-17: SHGetFolderPathW fills the buffer;
\* when it fails for a folder the buffer stays empty
get_special_folder_path(env, f) ==
  IF f \in env.blank THEN << >> ELSE SpecialRoot \o f

\* lines 34-40: the lookups in order; env.raise_at is the lookup that raises
\* (0: none), the assignments before it stay in folder_paths
special_lookup(env) ==
  LET n == IF env.raise_at = 0 THEN Len(WellKnown) ELSE env.raise_at - 1
  IN  [status |-> IF env.raise_at = 0 THEN "returned" ELSE "raised",
       paths |-> [i \in 1..n |->
                    [name |-> WellKnown[i],
                     path |-> get_special_folder_path(env, WellKnown[i])]]]

\* lines 43-48: the folders that exist under Path.home()
home_fallback(env) ==
  SelectSeq([i \in 1..Len(fallback_folders) |->
               [name |-> lower(fallback_folders[i]),
                path |-> HomeRoot \o fallback_folders[i]]],
            LAMBDA e : e.name \in env.home)

\* dict assignment key by key: the keys of old keep their place and take
\* the new value, the other keys of new are appended
dict_assign(old, new) ==
  [i \in 1..Len(old) |->
     IF \E k \in 1..Len(new) : new[k].name = old[i].name
       THEN new[CHOOSE k \in 1..Len(new) : new[k].name = old[i].name]
       ELSE old[i]]
    \o SelectSeq(new, LAMBDA e : \A i \in 1..Len(old) : old[i].name # e.name)

\* lines 32-48: folder_paths after the try/except
folder_paths_of(env) ==
  LET sp == special_lookup(env)
  IN  IF sp.status = "returned" THEN sp.paths
      ELSE dict_assign(sp.paths, home_fallback(env))

ListOk(names) == [status |-> "ok", names |-> names]
ListDenied    == [status |-> "denied", names |-> << >>]

\* list_immediate_subfolders without its try/except
list_immediate_subfolders_unhandled(listing) ==
  IF listing.status = "ok"
    THEN [status |-> "returned", names |-> listing.names]
    ELSE [status |-> "raised", names |-> << >>]

\* list_immediate_subfolders, lines 19-28: an exception of the listing
\* gives the empty list
list_immediate_subfolders(listing) ==
  IF listing.status = "ok"
    THEN [status |-> "returned", names |-> listing.names]
    ELSE [status |-> "returned", names |-> << >>]

\* get_user_folders, lines 30-59
get_user_folders(env) ==
  LET fp   == folder_paths_of(env)
      kept == SelectSeq(fp, LAMBDA e : e.path # << >>)
      ls   == [i \in 1..Len(kept) |->
                 list_immediate_subfolders(env.listing[kept[i].name])]
  IN  IF \E i \in 1..Len(kept) : ls[i].status = "raised"
        THEN [status |-> "raised", folders |-> << >>]
        ELSE [status |-> "returned",
              folders |-> [i \in 1..Len(kept) |->
                             [name |-> kept[i].name,
                              path |-> kept[i].path,
                              folders |-> ls[i].names]]]

(***************************************************************************)
(* Inputs of the module load of launcher.py                                *)
(***************************************************************************)
L_vs_code    == <<"v", "s", " ", "c", "o", "d", "e">>
L_VS_Code_sp == <<"V", "S", " ", " ", "C", "o", "d", "e">>
L_calc       == <<"c", "a", "l", "c">>
P_code_exe   == <<"C", ":", "\\", "V", "S", "\\", "C", "o", "d", "e", ".", "e", "x", "e">>
P_calc_exe   == <<"C", ":", "\\", "c", "a", "l", "c", ".", "e", "x", "e">>
Sub_projects == <<"P", "r", "o", "j", "e", "c", "t", "s">>
Sub_my_work  == <<"M", "y", " ", "W", "o", "r", "k">>

AppEntry(name, path) == [name |-> name, path |-> path]

\* what get_installed_apps can return: name -> exe path, names lower-cased
\* (apps.py, lines 17-37)
StartMenus ==
  {<< >>,
   <<AppEntry(L_vs_code, P_code_exe)>>,
   <<AppEntry(L_calc, P_calc_exe)>>,
   <<AppEntry(L_calc, P_calc_exe), AppEntry(L_vs_code, P_code_exe)>>}

JsonDict(d) == [kind |-> "json", isdict |-> TRUE, entries |-> d]

\* what CACHE_FILE can be before the load: absent, a JSON object, JSON that
\* is not an object, text that is not JSON, bytes that are not UTF-8
CacheFiles ==
  {[kind |-> k, isdict |-> FALSE, entries |-> << >>] :
     k \in {"missing", "not_json", "not_utf8", "json"}}
    \cup {JsonDict(d) : d \in StartMenus \cup {<<AppEntry(L_VS_Code_sp, P_code_exe)>>}}

FolderListing(documents, desktop) ==
  [f \in WellKnownSet |->
     IF f = F_documents THEN documents
     ELSE IF f = F_desktop THEN desktop
     ELSE ListOk(<< >>)]

\* what iterdir finds: Documents holds one sub-folder or cannot be listed,
\* Desktop is empty or cannot be listed
FolderListings ==
  {FolderListing(ListOk(<<Sub_projects>>), ListOk(<< >>)),
   FolderListing(ListOk(<<Sub_my_work>>), ListOk(<< >>)),
   FolderListing(ListDenied, ListOk(<< >>)),
   FolderListing(ListOk(<<Sub_projects>>), ListDenied)}

FolderEnv(raise_at, blank, home, listing) ==
  [raise_at |-> raise_at, blank |-> blank, home |-> home, listing |-> listing]

\* the state of the machine get_user_folders runs on: every lookup works
\* (one may leave an empty path), or the first lookup raises (no windll), or
\* the fourth does; under Path.home() nothing, or Desktop and Documents
FolderEnvs ==
  {FolderEnv(0, b, {}, l) : b \in {{}, {F_music}}, l \in FolderListings}
    \cup {FolderEnv(1, {}, h, l) :
            h \in {{}, {F_desktop, F_documents}}, l \in FolderListings}
    \cup {FolderEnv(4, {}, {F_desktop, F_documents}, l) : l \in FolderListings}

(***************************************************************************)
(* AppOperations._discover_macos_apps, _discover_linux_apps and            *)
(* _discover_windows_apps.  apps is the local dict of the scan, a sequence *)
(* of [name, path] entries in insertion order.  A directory is             *)
(*   [status |-> "missing" (os.path.exists is False), "oserror"            *)
(*    (os.listdir raises OSError) or "ok", listing |-> the files found],   *)
(* a file is [item |-> its name, x_ok |-> os.access(..., os.X_OK)].        *)
(***************************************************************************)
MAX_APPS_LIMIT == 50

SKIP_EXECUTABLES ==
  << <<"s","y","s","t","e","m","d">>, <<"d","b","u","s">>,
     <<"u","p","d","a","t","e">>, <<"i","n","s","t","a","l","l">>,
     <<"c","o","n","f","i","g">> >>

DotApp     == <<".", "a", "p", "p">>
DotDesktop == <<".", "d", "e", "s", "k", "t", "o", "p">>

\* str.replace(old, new): every non-overlapping occurrence, left to right
RECURSIVE replace_from(_, _, _, _)
replace_from(s, old, new, i) ==
  IF i > Len(s) THEN << >>
  ELSE IF i + Len(old) - 1 <= Len(s) /\ SubSeq(s, i, i + Len(old) - 1) = old
    THEN new \o replace_from(s, old, new, i + Len(old))
  ELSE <<s[i]>> \o replace_from(s, old, new, i + 1)

replace(s, old, new) == replace_from(s, old, new, 1)

File(item, x_ok) == [item |-> item, x_ok |-> x_ok]

Dir(status, listing) == [status |-> status, listing |-> listing]

\* apps[name] = path
apps_setitem(apps, name, path) ==
  dict_assign(apps, <<[name |-> name, path |-> path]>>)

\* lines 39-41: one item of a macOS applications directory
macos_item(apps, dir_no, f) ==
  IF endswith(f.item, DotApp)
    THEN apps_setitem(apps, lower(replace(f.item, DotApp, << >>)),
                      Desc("path", f.item, dir_no, FALSE))
    ELSE apps

\* lines 63-65: one item of a Linux desktop-entry directory
desktop_item(apps, dir_no, f) ==
  IF endswith(f.item, DotDesktop)
    THEN apps_setitem(apps,
                      lower(replace(replace(f.item, DotDesktop, << >>),
                                    <<"-">>, <<" ">>)),
                      Desc("path", f.item, dir_no, FALSE))
    ELSE apps

\* lines 78-81: any(skip in item.lower() for skip in SKIP_EXECUTABLES)
skipped(item) ==
  \E k \in 1..Len(SKIP_EXECUTABLES) : contains(lower(item), SKIP_EXECUTABLES[k])

\* lines 76-82: the test an item of a bin directory has to pass, but for the
\* cap
eligible(f) == f.x_ok /\ ~skipped(f.item)

\* line 82: len(apps) < self.MAX_APPS_LIMIT
under_cap(apps, first_bin) == Len(apps) < MAX_APPS_LIMIT

\* lines 75-84: one item of a Linux bin directory; first_bin is the number
\* of the first bin directory among the sources
bin_item(apps, dir_no, f, first_bin) ==
  IF eligible(f) /\ under_cap(apps, first_bin)
    THEN apps_setitem(apps, lower(f.item), Desc("path", f.item, dir_no, FALSE))
    ELSE apps

\* the loop over os.listdir(...) of one directory
RECURSIVE scan_listing(_, _, _, _, _, _)
scan_listing(kind, apps, dir_no, listing, i, first_bin) ==
  IF i > Len(listing) \/ Len(apps) < 0 THEN apps
  ELSE scan_listing(kind,
         IF kind = "macos" THEN macos_item(apps, dir_no, listing[i])
         ELSE IF kind = "desktop" THEN desktop_item(apps, dir_no, listing[i])
         ELSE bin_item(apps, dir_no, listing[i], first_bin),
         dir_no, listing, i + 1, first_bin)

\* lines 34-43, 57-67 and 71-86: one directory of a scan: a missing
\* directory and one whose listing raises OSError are passed over
scan_dir(kind, apps, dir_no, dir, first_bin) ==
  IF dir.status = "missing" THEN [status |-> "returned", apps |-> apps]
  ELSE IF dir.status = "oserror" THEN [status |-> "returned", apps |-> apps]
  ELSE [status |-> "returned",
        apps |-> scan_listing(kind, apps, dir_no, dir.listing, 1, first_bin)]

\* the result of one PowerShell query of _discover_windows_apps:
\*   [status |-> "nonzero", "timeout" (subprocess.TimeoutExpired), "blank"
\*    (stdout empty after strip), "badjson" (json.loads raises) or "ok",
\*    shape |-> "list" or "dict" (what json.loads returned),
\*    elems |-> the objects, each [Name, Id]]
Query(status, shape, elems) ==
  [status |-> status, shape |-> shape, elems |-> elems]

Elem(name, id) == [Name |-> name, Id |-> id]

\* lines 107-111 and 119-123: one object of Get-StartApps
start_app_elem(apps, e) ==
  IF e.Name # << >> /\ e.Id # << >>
    THEN LET app_name == strip(e.Name)
             app_id == strip(e.Id)
         IN  IF app_name # << >> /\ Len(app_name) > 1
               THEN apps_setitem(apps, lower(app_name),
                      Desc("appid", app_id, 1,
                           \E d \in DrivePrefixes : startswith(app_id, d)))
               ELSE apps
    ELSE apps

\* full_name.split(".")[-1] when "." in full_name, else full_name
last_part(full_name) ==
  LET dots == {i \in 1..Len(full_name) : full_name[i] = "."}
  IN  IF dots = {} THEN full_name
      ELSE SubSeq(full_name, MaxOf(dots) + 1, Len(full_name))

\* lines 146-157 and 163-174: one object of Get-AppxPackage
appx_elem(apps, e) ==
  IF e.Name # << >> /\ e.Id # << >>
    THEN LET app_name == last_part(e.Name)
         IN  IF app_name # << >> /\ Len(app_name) > 1
               THEN apps_setitem(apps, lower(app_name),
                                 Desc("package", e.Id, 2, FALSE))
               ELSE apps
    ELSE apps

RECURSIVE query_elems(_, _, _, _)
query_elems(kind, apps, elems, i) ==
  IF i > Len(elems) \/ Len(apps) < 0 THEN apps
  ELSE query_elems(kind,
         IF kind = "start_apps" THEN start_app_elem(apps, elems[i])
         ELSE appx_elem(apps, elems[i]),
         elems, i + 1)

\* lines 93-127 and 129-176: Method 1 and Method 2, each in its own
\* try/except Exception; a dict is the single-object case
windows_query(kind, apps, q) ==
  IF q.status = "ok"
    THEN [status |-> "returned", apps |-> query_elems(kind, apps, q.elems, 1)]
    ELSE [status |-> "returned", apps |-> apps]

DotLnkLen == Len(DotLnk)

\* Path.stem of a file rglob("*.lnk") yielded
stem(item) == SubSeq(item, 1, Len(item) - DotLnkLen)

\* lines 196-206: one shortcut: added only when the name is not yet a key
shortcut_item(apps, menu_no, f) ==
  LET app_name == stem(f.item)
  IN  IF /\ endswith(f.item, DotLnk)
         /\ app_name # << >>
         /\ Len(app_name) > 1
         /\ ~HasKey(apps, lower(app_name))
        THEN apps_setitem(apps, lower(app_name), Desc("lnk", f.item, 2 + menu_no, FALSE))
        ELSE apps

RECURSIVE shortcut_items(_, _, _, _)
shortcut_items(apps, menu_no, listing, i) ==
  IF i > Len(listing) \/ Len(apps) < 0 THEN apps
  ELSE shortcut_items(shortcut_item(apps, menu_no, listing[i]), menu_no,
                      listing, i + 1)

\* lines 178-207: Method 3, the loop over start_menu_paths inside one
\* try/except Exception: a menu is a Dir whose status "oserror" stands for
\* start_path.exists() or rglob raising, which ends the loop
RECURSIVE windows_shortcuts(_, _, _)
windows_shortcuts(apps, menus, i) ==
  IF i > Len(menus) THEN apps
  ELSE IF menus[i].status = "oserror" THEN apps
  ELSE IF menus[i].status = "missing" THEN windows_shortcuts(apps, menus, i + 1)
  ELSE windows_shortcuts(shortcut_items(apps, i, menus[i].listing, 1),
                         menus, i + 1)

(***************************************************************************)
(* Inputs of a discovery pass                                              *)
(***************************************************************************)
D_Code_app        == <<"C", "o", "d", "e", ".", "a", "p", "p">>
D_code_app        == <<"c", "o", "d", "e", ".", "a", "p", "p">>
D_Notes_app       == <<"N", "o", "t", "e", "s", ".", "a", "p", "p">>
D_readme          == <<"r", "e", "a", "d", "m", "e", ".", "t", "x", "t">>
D_vs_code_desktop == <<"v", "s", "-", "c", "o", "d", "e", ".", "d", "e", "s", "k", "t", "o", "p">>
D_code_desktop    == <<"c", "o", "d", "e", ".", "d", "e", "s", "k", "t", "o", "p">>
D_gimp_desktop    == <<"g", "i", "m", "p", ".", "d", "e", "s", "k", "t", "o", "p">>
D_code            == <<"c", "o", "d", "e">>
D_Code            == <<"C", "o", "d", "e">>
D_gimp            == <<"g", "i", "m", "p">>
D_systemd_run     == <<"s", "y", "s", "t", "e", "m", "d", "-", "r", "u", "n">>
D_notes           == <<"n", "o", "t", "e", "s">>
D_Code_lnk        == <<"C", "o", "d", "e", ".", "l", "n", "k">>
D_calc_lnk        == <<"c", "a", "l", "c", ".", "l", "n", "k">>
D_Calc_lnk        == <<"C", "a", "l", "c", ".", "l", "n", "k">>
D_Paint_lnk       == <<"P", "a", "i", "n", "t", ".", "l", "n", "k">>
N_Code            == <<"C", "o", "d", "e">>
N_Code_padded     == <<" ", "C", "o", "d", "e", " ">>
N_X               == <<"X">>
N_Notes           == <<"N", "o", "t", "e", "s">>
N_Microsoft_Code  == <<"M", "i", "c", "r", "o", "s", "o", "f", "t", ".", "C", "o", "d", "e">>
N_Notes_pkg       == <<"C", "o", "n", "t", "o", "s", "o", ".", "N", "o", "t", "e", "s">>
Id_code           == <<"M", "S", ".", "C", "o", "d", "e">>
Id_notes          == <<"C", "o", "n", "t", "o", "s", "o", ".", "N", "o", "t", "e", "s", "_", "8", "w", "e", "k", "!", "A", "p", "p">>
Id_code_exe       == <<"C", ":", "\\", "C", "o", "d", "e", ".", "e", "x", "e">>
Fam_code          == <<"M", "S", ".", "C", "o", "d", "e", "_", "8", "w", "e", "k">>
Fam_notes         == <<"N", "o", "t", "e", "s", "_", "8", "w", "e", "k">>

\* the i-th of many desktop entries with different names, 0 <= i < 100
ManyName(i) ==
  <<"a", "p", "p", Digits[(i \div 10) + 1], Digits[(i % 10) + 1]>> \o DotDesktop

\* a directory holding n desktop entries with different names
Many(n) == Dir("ok", [i \in 1..n |-> File(ManyName(i - 1), FALSE)])

Missing == Dir("missing", << >>)
Failing == Dir("oserror", << >>)

\* /Applications and ~/Applications
MacDirs ==
  LET choice == {Missing, Failing,
                 Dir("ok", <<File(D_Code_app, FALSE)>>),
                 Dir("ok", <<File(D_code_app, FALSE), File(D_Notes_app, FALSE)>>),
                 Dir("ok", <<File(D_readme, FALSE), File(D_Notes_app, FALSE)>>)}
  IN  {<<a, b>> : a \in choice, b \in choice}

\* the three desktop-entry directories, then the three bin directories
LinuxDirs ==
  LET small  == Dir("ok", <<File(D_vs_code_desktop, FALSE)>>)
      pair   == Dir("ok", <<File(D_code_desktop, FALSE), File(D_gimp_desktop, FALSE)>>)
      usr    == Dir("ok", <<File(D_code, TRUE), File(D_systemd_run, TRUE)>>)
      loc    == Dir("ok", <<File(D_Code, TRUE), File(D_notes, FALSE)>>)
      bin    == Dir("ok", <<File(D_gimp, TRUE), File(D_code, TRUE)>>)
  IN  {<<d1, d2, d3, b1, b2, b3>> :
         d1 \in {Missing, Failing, small, Many(MAX_APPS_LIMIT), Many(MAX_APPS_LIMIT - 1)},
         d2 \in {Missing, Failing, pair},
         d3 \in {Missing, small},
         b1 \in {Missing, Failing, usr, loc},
         b2 \in {Missing, loc, bin},
         b3 \in {Missing, usr}}

\* number of the first bin directory in LinuxDirs
FirstBin == 4

\* what Get-StartApps | ConvertTo-Json can hand back
StartAppsQueries ==
  {Query("nonzero", "list", << >>), Query("timeout", "list", << >>),
   Query("blank", "list", << >>), Query("badjson", "list", << >>),
   Query("ok", "list", <<Elem(N_Code, Id_code)>>),
   Query("ok", "list", <<Elem(N_Code_padded, Id_code_exe), Elem(N_X, Id_notes),
                         Elem(N_Notes, << >>)>>),
   Query("ok", "dict", <<Elem(N_Notes, Id_notes)>>)}

\* what Get-AppxPackage ... | ConvertTo-Json can hand back
AppxQueries ==
  {Query("nonzero", "list", << >>), Query("badjson", "list", << >>),
   Query("ok", "list", <<Elem(N_Microsoft_Code, Fam_code)>>),
   Query("ok", "dict", <<Elem(N_Notes_pkg, Fam_notes)>>)}

\* the user's Start Menu and the Start Menu of ProgramData
StartMenuDirs ==
  {<<m1, m2>> :
     m1 \in {Missing, Failing, Dir("ok", <<File(D_Code_lnk, FALSE)>>),
             Dir("ok", <<File(D_Calc_lnk, FALSE), File(D_Paint_lnk, FALSE)>>)},
     m2 \in {Missing, Dir("ok", <<File(D_Code_lnk, FALSE), File(D_Paint_lnk, FALSE)>>),
             Dir("ok", <<File(D_calc_lnk, FALSE)>>)}}

\* what one discovery pass finds on the machine
ScanEnv(dirs, queries, menus) ==
  [dirs |-> dirs, queries |-> queries, menus |-> menus]

NoScanEnv == ScanEnv(<< >>, << >>, << >>)

ScanEnvs(sys) ==
  IF sys = "darwin" THEN {ScanEnv(d, << >>, << >>) : d \in MacDirs}
  ELSE IF sys = "linux" THEN {ScanEnv(d, << >>, << >>) : d \in LinuxDirs}
  ELSE IF sys = "windows"
    THEN {ScanEnv(<< >>, <<q1, q2>>, m) :
            q1 \in StartAppsQueries, q2 \in AppxQueries, m \in StartMenuDirs}
  ELSE {NoScanEnv}

(***************************************************************************)
(* services/wyoming_client.py: the framing of an event.  A byte is a       *)
(* number in 0..255; a header is [type, payload_length], payload_length an *)
(* Optional number (the fields data and data_length are None throughout).  *)
(***************************************************************************)
\* the printable ASCII characters, from code 32 on (the grave accent, which
\* no header text holds, is spelled out)
Ascii ==
  <<
    " ","!","\"","#","$","%","&","'","(",")","*","+",
    ",","-",".","/","0","1","2","3","4","5","6","7",
    "8","9",":",";","<","=",">","?","@","A","B","C",
    "D","E","F","G","H","I","J","K","L","M","N","O",
    "P","Q","R","S","T","U","V","W","X","Y","Z","[",
    "\\","]","^","_","GRAVE","a","b","c","d","e","f","g",
    "h","i","j","k","l","m","n","o","p","q","r","s",
    "t","u","v","w","x","y","z","{","|","}","~" >>

AsciiBase == 32

\* str.encode("utf-8") of ASCII text
encode(text) ==
  [i \in 1..Len(text) |->
     AsciiBase - 1 + CHOOSE k \in 1..Len(Ascii) : Ascii[k] = text[i]]

\* bytes.decode("utf-8") of ASCII bytes; {} when a byte is not printable
\* ASCII (other bytes are not part of any header text)
decode(bytes) ==
  IF \A i \in 1..Len(bytes) :
       bytes[i] >= AsciiBase /\ bytes[i] < AsciiBase + Len(Ascii)
    THEN {[i \in 1..Len(bytes) |-> Ascii[bytes[i] - AsciiBase + 1]]}
    ELSE {}

\* str(n) for 0 <= n < 100
str_of(n) ==
  IF n < 10 THEN <<Digits[n + 1]>>
  ELSE <<Digits[(n \div 10) + 1], Digits[(n % 10) + 1]>>

WyomingHeader(type, payload_length) ==
  [type |-> type, payload_length |-> payload_length]

\* header.json(exclude_none=True)
header_json(h) ==
  <<"{", "\"", "t", "y", "p", "e", "\"", ":", " ", "\"">> \o h.type \o <<"\"">>
    \o (IF h.payload_length = {} THEN << >>
        ELSE <<",", " ", "\"", "p", "a", "y", "l", "o", "a", "d", "_",
               "l", "e", "n", "g", "t", "h", "\"", ":", " ">>
             \o str_of(CHOOSE n \in h.payload_length : TRUE))
    \o <<"}">>

\* struct.pack('>I', n)
pack_I(n) ==
  <<(n \div 16777216) % 256, (n \div 65536) % 256, (n \div 256) % 256, n % 256>>

\* struct.unpack('>I', b)[0]
unpack_I(b) == b[1] * 16777216 + b[2] * 65536 + b[3] * 256 + b[4]

\* an event as send_event takes it: payload is Optional bytes
Event(header, payload) == [header |-> header, payload |-> payload]

\* send_event, lines 30-42: the bytes written for an event; `if payload`
\* is false for None and for b""
frame(ev) ==
  LET header_bytes == encode(header_json(ev.header))
  IN  pack_I(Len(header_bytes)) \o header_bytes
        \o (IF ev.payload # {} /\ ev.payload # {<< >>}
              THEN CHOOSE b \in ev.payload : TRUE
              ELSE << >>)

WyomingTypes == {<<"a", "u", "d", "i", "o">>}

PayloadLengths == {{}, {0}, {1}, {2}}

Headers ==
  {WyomingHeader(t, n) : t \in WyomingTypes, n \in PayloadLengths}

\* byte 0, the byte of "{" and the byte of a digit are among the payloads
Payloads == {{}, {<< >>}, {<<0>>}, {<<123, 50>>}}

\* json.loads(text) followed by WyomingHeader(**header_data): the header
\* whose JSON text this is; {} when the text is no header's JSON (json.loads
\* or the validation raises)
parse_header(text) == {h \in Headers : header_json(h) = text}

MaxEvents == 2

(***************************************************************************)
(* agent/operations/utilities.py: execute_shell_command                    *)
(***************************************************************************)
\* validate_shell_command, lines 128-146
safe_commands_windows ==
  {<<"d", "i", "r">>,
   <<"e", "c", "h", "o">>,
   <<"c", "d">>,
   <<"c", "o", "p", "y">>,
   <<"m", "o", "v", "e">>,
   <<"d", "e", "l">>,
   <<"t", "y", "p", "e">>,
   <<"f", "i", "n", "d", "s", "t", "r">>,
   <<"w", "h", "e", "r", "e">>,
   <<"t", "a", "s", "k", "l", "i", "s", "t">>,
   <<"p", "i", "n", "g">>,
   <<"i", "p", "c", "o", "n", "f", "i", "g">>,
   <<"p", "a", "t", "h">>,
   <<"c", "l", "s">>,
   <<"c", "h", "d", "i", "r">>,
   <<"m", "k", "d", "i", "r">>,
   <<"r", "m", "d", "i", "r">>}

\* validate_shell_command, lines 148-168
safe_commands_posix ==
  {<<"l", "s">>,
   <<"p", "w", "d">>,
   <<"c", "d">>,
   <<"c", "p">>,
   <<"m", "v">>,
   <<"r", "m">>,
   <<"c", "a", "t">>,
   <<"e", "c", "h", "o">>,
   <<"g", "r", "e", "p">>,
   <<"f", "i", "n", "d">>,
   <<"w", "h", "i", "c", "h">>,
   <<"p", "s">>,
   <<"p", "i", "n", "g">>,
   <<"i", "f", "c", "o", "n", "f", "i", "g">>,
   <<"w", "h", "o", "a", "m", "i">>,
   <<"c", "l", "e", "a", "r">>,
   <<"m", "k", "d", "i", "r">>,
   <<"r", "m", "d", "i", "r">>,
   <<"o", "p", "e", "n">>}

safe_commands(sys) ==
  IF sys = "windows" THEN safe_commands_windows ELSE safe_commands_posix

\* validate_shell_command, lines 170-177: the first word of the command,
\* quotes removed, is in the list
validate_shell_command(sys, cmd) ==
  LET cmd_parts == split(cmd)
  IN  IF cmd_parts = << >> THEN FALSE
      ELSE replace(replace(cmd_parts[1], <<"\"">>, << >>), <<"'">>, << >>)
             \in safe_commands(sys)

\* the words that end one command and begin the next for the shell that
\* subprocess.run(..., shell=True) starts: /bin/sh, or cmd.exe on windows
Separators(sys) ==
  IF sys = "windows" THEN {<<"&">>, <<"&", "&">>, <<"|">>}
  ELSE {<<";">>, <<"&", "&">>, <<"|">>}

\* the programs the shell executes for a command line: the first word, its
\* quotes removed, of each command of the line
shell_programs(sys, cmd) ==
  LET words == split(cmd)
  IN  {replace(replace(words[i], <<"\"">>, << >>), <<"'">>, << >>) :
         i \in {j \in 1..Len(words) :
                  /\ words[j] \notin Separators(sys)
                  /\ (j = 1 \/ words[j - 1] \in Separators(sys))}}

\* the words the command lines of the model are built from
ShellWords ==
  {<<"l", "s">>, <<"d", "i", "r">>, <<"\"", "l", "s", "\"">>,
   <<"c", "u", "r", "l">>, <<"-", "l">>,
   <<";">>, <<"&", "&">>, <<"|">>}

MaxWords == 3

\* the command lines of up to MaxWords words, and one of blanks only
Commands ==
  {<<" ", " ">>} \cup
  UNION {{JoinFrom(w, 1) : w \in [1..k -> ShellWords]} : k \in 0..MaxWords}

\* how the subprocess.run call at lines 95-102 can end
RunOutcomes == {"completed", "TimeoutExpired", "OSError"}

(***************************************************************************)
(* vaakya_assistant.py: the wake-word assistant                            *)
(***************************************************************************)
\* line 143
conversation_window_sec == 30

\* line 168: the words that end the conversation
exit_words ==
  {<<"s", "t", "o", "p">>, <<"g", "o", "o", "d", "b", "y", "e">>, <<"b", "y", "e">>,
   <<"e", "x", "i", "t">>, <<"t", "h", "a", "n", "k", " ", "y", "o", "u">>,
   <<"t", "h", "a", "n", "k", "s">>, <<"t", "h", "a", "t", "'", "s", " ", "a", "l", "l">>}

\* line 168: any(word in command for word in [...])
is_exit(cmd) == \E w \in exit_words : contains(cmd, w)

\* line 165
command_of(text) == strip(lower(text))

\* line 159: not transcription or not transcription.strip()
is_blank(text) == text = << >> \/ strip(text) = << >>

OpenPrefix == <<"o", "p", "e", "n", " ">>

\* lines 173-198: what the "open ..." branch opens and says
open_target(cmd) ==
  LET target == strip(SubSeq(cmd, Len(OpenPrefix) + 1, Len(cmd)))
  IN  IF contains(target, <<"y", "o", "u", "t", "u", "b", "e">>)
        THEN [opened |-> {"https://www.youtube.com"}, spoken |-> "Opening YouTube."]
      ELSE IF contains(target, <<"g", "o", "o", "g", "l", "e">>)
        THEN [opened |-> {"https://www.google.com"}, spoken |-> "Opening Google."]
      ELSE IF contains(target, <<"v", "s", " ", "c", "o", "d", "e">>) \/ contains(target, <<"v", "i", "s", "u", "a", "l", " ", "s", "t", "u", "d", "i", "o">>)
        THEN [opened |-> {"code"}, spoken |-> "Opening Visual Studio Code."]
      ELSE IF contains(target, <<"p", "o", "w", "e", "r", "p", "o", "i", "n", "t">>) \/ contains(target, <<"p", "p", "t">>)
        THEN [opened |-> {"start powerpnt"}, spoken |-> "Opening PowerPoint."]
      ELSE IF contains(replace(target, <<" ">>, << >>), <<".">>)
        THEN [opened |-> {"https://<target>"}, spoken |-> "Opening <target>."]
      ELSE [opened |-> {}, spoken |-> "Sorry, I don't know how to open <target> yet."]

\* lines 172-201: the command is handled
handle_command(cmd) ==
  IF startswith(cmd, OpenPrefix) THEN open_target(cmd)
  ELSE [opened |-> {}, spoken |-> "You said: <transcription>"]

\* what the user says while one recording runs
Utterances ==
  {<< >>, <<" ">>, <<"S", "t", "o", "p">>, <<"H", "e", "l", "l", "o">>,
   <<"o", "p", "e", "n", " ", "y", "o", "u", "t", "u", "b", "e">>, <<"O", "p", "e", "n", " ", "G", "o", "o", "g", "l", "e">>,
   <<"o", "p", "e", "n", " ", "v", "s", " ", "c", "o", "d", "e">>, <<"o", "p", "e", "n", " ", "p", "p", "t">>,
   <<"o", "p", "e", "n", " ", "a", ".", "b">>, <<"o", "p", "e", "n", " ", "x">>}

\* how long one recording lasts: longer than SILENCE_SEC, line 20
RecordSeconds == {6, 10}

\* the clock is followed up to this many seconds after start_conv
MaxElapsed == 36

\* the answers of POST /transcribe for an utterance: not ok, or ok with
\* the text of the utterance or with an empty text
Answers(said) ==
  {[ok |-> FALSE, transcription |-> {}]}
    \cup {[ok |-> TRUE, transcription |-> {t}] : t \in {said, << >>}}

(***************************************************************************)
(* State                                                                   *)
(***************************************************************************)
VARIABLES
  system,     \* AppOperations.system
  app_cache,  \* AppOperations._app_cache: Optional index
  pc,         \* per thread: where the thread is in its call
  op,         \* per thread: the operation the thread was asked to run
  query,      \* per thread: the app_name / query argument
  threshold,  \* per thread: find_app_fuzzy's threshold after defaulting
  matched,    \* per thread: matched_app, Optional name
  scored,     \* per thread: the dict object the scoring loop iterated
  branch,     \* per thread: the branch launch_app took
  app_path,   \* per thread: the descriptor read at line 481, Optional
  attempted,  \* per thread: the launch methods run, in order
  ret,        \* per thread: what the call returned
  found_apps, \* history: some discovery pass has yielded at least one app
  last_scan,  \* history: the dict the latest finished scan handed to line 229
  best_score, \* per thread: best_score when the scoring loop ended
  load_pc,           \* launcher.py: where the module load is
  cache_file,        \* launcher.py: the content of CACHE_FILE
  cache_before,      \* history: the content of CACHE_FILE before the load
  discovered,        \* history: apps.get_installed_apps() has run
  installed_apps,    \* launcher.py: installed_apps
  folder_env,        \* the machine state get_user_folders found
  user_folders,      \* launcher.py: user_folders
  items,             \* launcher.py: items
  candidate_labels,  \* launcher.py: candidate_labels
  candidate_to_item, \* launcher.py: candidate_to_item (0-based item index)
  scan_pc,    \* a discovery pass: not started, scanning, or returned
  scan_env,   \* what the pass finds on the machine
  scan_at,    \* the number of the source the pass scans next
  scan_apps,  \* the local dict apps of the _discover_*_apps function
  req_pc,     \* POST /transcribe, per request: where the handler is
  temp_files, \* the temporary files that exist, as <<request, purpose>>
  response,   \* per request: the response or HTTP error produced
  wire,        \* WyomingClient: the bytes written and not yet read
  sent,        \* history: the events send_event was called with, in order
  received,    \* history: what receive_event returned, in order
  recv_pc,     \* receive_event: between events, before the payload, raised
  recv_header, \* receive_event: the local header, Optional
  cls_instance, \* TranscriptionService._instance, Optional instance number
  cls_model,    \* TranscriptionService._model, Optional model number
  cls_executor, \* TranscriptionService._executor, Optional pool number
  instances,    \* the TranscriptionService objects created, with their attributes
  pools,        \* the ThreadPoolExecutor objects created: has shutdown() run
  models,       \* the number of WhisperModel objects created
  obtained,     \* the object the latest TranscriptionService() returned, Optional
  held,         \* per owner: the object its transcription_service names, Optional
  submitted,    \* per owner: how its latest run_in_executor call ended
  last_call,    \* history: the latest call made on the service
  command,      \* execute_shell_command: the argument command
  shell_pc,     \* execute_shell_command: not called, validated, returned
  started,      \* the programs the shell of subprocess.run has executed
  shell_result, \* execute_shell_command: the dict returned
  asst_pc,      \* run_assistant: waiting for the wake word, recording, posting
  elapsed_sec,  \* run_assistant: time.time() - start_conv
  utterance,    \* what the user said during the latest recording
  answer,       \* run_assistant: the latest response of POST /transcribe, Optional
  tts,          \* the latest phrase given to play_tts
  launched      \* what the latest handled command opened, Optional

launcher_vars == <<load_pc, cache_file, cache_before, discovered,
                   installed_apps, folder_env, user_folders, items,
                   candidate_labels, candidate_to_item>>

ops_vars == <<system, app_cache, pc, op, query, threshold, matched, scored,
              branch, app_path, attempted, ret, found_apps, last_scan,
              best_score>>

discovery_vars == <<scan_pc, scan_env, scan_at, scan_apps>>

transcribe_vars == <<req_pc, temp_files, response>>

\* the state outside the resolution engine
wyoming_vars == <<wire, sent, received, recv_pc, recv_header>>

service_vars == <<cls_instance, cls_model, cls_executor, instances, pools,
                  models, obtained, held, submitted, last_call>>

shell_vars == <<command, shell_pc, started, shell_result>>

assistant_vars == <<asst_pc, elapsed_sec, utterance, answer, tts, launched>>

glue_vars == <<transcribe_vars, wyoming_vars, service_vars, shell_vars,
               assistant_vars>>

engine_vars == <<ops_vars, launcher_vars, discovery_vars>>

extra_vars == <<discovery_vars, glue_vars>>

vars == <<ops_vars, launcher_vars, extra_vars>>

NoMsg == [template |-> "", arg |-> << >>]

NoRet == [status |-> "none", bool |-> FALSE, match |-> {}, names |-> << >>,
          msg |-> NoMsg]

\* AppOperations.__init__, lines 26-28
InitOps ==
  /\ system \in Systems
  /\ app_cache = {}
  /\ pc = [t \in Threads |-> "idle"]
  /\ op = [t \in Threads |-> "none"]
  /\ query = [t \in Threads |-> << >>]
  /\ threshold = [t \in Threads |-> FUZZY_THRESHOLD]
  /\ matched = [t \in Threads |-> {}]
  /\ scored = [t \in Threads |-> {}]
  /\ branch = [t \in Threads |-> "none"]
  /\ app_path = [t \in Threads |-> {}]
  /\ attempted = [t \in Threads |-> << >>]
  /\ ret = [t \in Threads |-> NoRet]
  /\ found_apps = FALSE
  /\ last_scan = {}
  /\ best_score = [t \in Threads |-> 0]

NoCacheFile == [kind |-> "missing", isdict |-> FALSE, entries |-> << >>]

NoApps == [isdict |-> TRUE, entries |-> << >>]

NoFolderEnv ==
  [raise_at |-> 0, blank |-> {}, home |-> {},
   listing |-> [f \in WellKnownSet |-> ListOk(<< >>)]]

\* the names of launcher.py before any of its module-level code has run
LauncherAt(where, file) ==
  /\ load_pc = where
  /\ cache_file = file
  /\ cache_before = file
  /\ discovered = FALSE
  /\ installed_apps = NoApps
  /\ folder_env = NoFolderEnv
  /\ user_folders = << >>
  /\ items = << >>
  /\ candidate_labels = << >>
  /\ candidate_to_item = << >>

\* the locals of a discovery pass
DiscoveryAt(where, env) ==
  /\ scan_pc = where
  /\ scan_env = env
  /\ scan_at = 1
  /\ scan_apps = << >>

Requests == {"r1", "r2", "r3"}

NoResponse == [status_code |-> 0, detail |-> ""]

\* the HTTP front end with no request received
InitTranscribe ==
  /\ req_pc = [r \in Requests |-> "idle"]
  /\ temp_files = {}
  /\ response = [r \in Requests |-> NoResponse]

\* the processes outside the resolution engine before they have done anything
\* a connected WyomingClient that has sent and received nothing
InitWyoming ==
  /\ wire = << >>
  /\ sent = << >>
  /\ received = << >>
  /\ recv_pc = "idle"
  /\ recv_header = {}

\* the module api/server.py (line 36) and a WorkingAgent (working_agent.py
\* line 133) each keep the object TranscriptionService() gave them
Owners == {"server", "agent"}

\* the class TranscriptionService before any object of it exists
InitService ==
  /\ cls_instance = {}
  /\ cls_model = {}
  /\ cls_executor = {}
  /\ instances = << >>
  /\ pools = << >>
  /\ models = 0
  /\ obtained = {}
  /\ held = [o \in Owners |-> {}]
  /\ submitted = [o \in Owners |-> "none"]
  /\ last_call = "none"

NoResult == [error |-> "", exit_code |-> {}]

\* execute_shell_command about to be called with command cmd
ShellAt(where, cmd) ==
  /\ command = cmd
  /\ shell_pc = where
  /\ started = {}
  /\ shell_result = NoResult

\* run_assistant has just been called: nothing recorded, said or opened
InitAssistant ==
  /\ asst_pc = "waiting"
  /\ elapsed_sec = 0
  /\ utterance = << >>
  /\ answer = {}
  /\ tts = "none"
  /\ launched = {}

InitGlue ==
  /\ InitTranscribe /\ InitWyoming /\ InitService
  /\ ShellAt("idle", << >>)
  /\ InitAssistant

\* an AppOperations instance in a process that has not imported launcher.py
Init ==
  /\ InitOps
  /\ LauncherAt("unloaded", NoCacheFile)
  /\ DiscoveryAt("idle", NoScanEnv)
  /\ InitGlue

(***************************************************************************)
(* Exception handlers and return values                                    *)
(***************************************************************************)
\* publication by updating the published dict in place
publish_in_place(cache, apps_dict) ==
  IF cache = {} THEN {apps_dict}
  ELSE {dict_assign(idx, apps_dict) : idx \in cache}

\* discover_apps, line 229: self._app_cache = apps_dict
publish(cache, apps_dict) == {apps_dict}

\* discover_apps without its try/except: the exception of the scan escapes
discover_apps_unhandled(scan) == scan

\* discover_apps, lines 215-226: the platform scan inside try/except; a scan
\* is [status, apps] and an exception in it leaves the empty dict
discover_apps(scan) ==
  IF scan.status = "raised"
    THEN [status |-> "returned", apps |-> << >>]
    ELSE scan

\* launch_app without its outer try/except: an exception of the body escapes
launch_app_unhandled(r) == r

\* launch_app, lines 476 and 507-509: the outer try/except Exception
launch_app_handle(r) ==
  IF r.status = "raised" THEN Returned(FALSE, r.attempted) ELSE r

\* WorkingAgent.launch_app, lines 172-179: the message for the agent
agent_message(r, app_name) ==
  IF r.status = "raised"
    THEN [template |-> "Error launching app: {e}", arg |-> << >>]
  ELSE IF r.bool
    THEN [template |-> "Successfully launched {app_name}", arg |-> app_name]
  ELSE [template |->
          "Failed to launch {app_name}. App may not be installed or name incorrect.",
        arg |-> app_name]

\* launch_app, lines 484-492 and 497-505: the dispatch on self.system;
\* name is what darwin and linux launch, path what windows launches
dispatch_launch(sys, name, path, fs, out) ==
  IF sys = "darwin" THEN launch_macos_app(out)
  ELSE IF sys = "linux" THEN launch_linux_app(out)
  ELSE IF sys = "windows" THEN launch_windows_app(path, fs, out)
  ELSE Returned(FALSE, << >>)

\* what the scan of the platform can yield: a dict or an exception
ScanOutcomes(sys, indices) ==
  {[status |-> "returned", apps |-> idx] : idx \in indices}
    \cup (IF sys = "other" THEN {} ELSE {[status |-> "raised", apps |-> << >>]})

\* what Path(app_path) can be on disk; only _launch_windows_app looks, and
\* only for a descriptor that is neither an app id nor a package family
FsKinds(sys, path) ==
  IF sys # "windows" \/ IsAppId(path) \/ IsPackage(path) THEN {"missing"}
  ELSE IF path.kind = "lnk" THEN {"missing", "file"}
  ELSE {"missing", "file", "dir", "dir_exe"}

\* the outcomes of the subprocess calls of one launch, by position in the
\* platform's chain; positions a platform does not use are fixed
LaunchEnvs(sys) ==
  IF sys = "linux" THEN [1..3 -> Outcomes]
  ELSE IF sys = "windows"
    THEN {o \in [1..3 -> Outcomes] :
            o[2] \in {"ok", "oserror"} /\ o[3] \in {"ok", "oserror"}}
  ELSE IF sys = "darwin"
    THEN {o \in [1..3 -> Outcomes] : o[2] = "ok" /\ o[3] = "ok"}
  ELSE {[i \in 1..3 |-> "ok"]}

(***************************************************************************)
(* Steps of a thread                                                       *)
(***************************************************************************)
\* a thread makes one call after the other
CanCall(t) == pc[t] \in {"idle", "done"}

\* entering a call: locals are fresh
Enter(t, o, q, th, next) ==
  /\ CanCall(t)
  /\ op' = [op EXCEPT ![t] = o]
  /\ query' = [query EXCEPT ![t] = q]
  /\ threshold' = [threshold EXCEPT ![t] = th]
  /\ matched' = [matched EXCEPT ![t] = {}]
  /\ scored' = [scored EXCEPT ![t] = {}]
  /\ branch' = [branch EXCEPT ![t] = "none"]
  /\ app_path' = [app_path EXCEPT ![t] = {}]
  /\ attempted' = [attempted EXCEPT ![t] = << >>]
  /\ ret' = [ret EXCEPT ![t] = NoRet]
  /\ best_score' = [best_score EXCEPT ![t] = 0]
  /\ pc' = [pc EXCEPT ![t] = next]
  /\ UNCHANGED <<extra_vars, launcher_vars, system, app_cache, found_apps, last_scan>>

\* find_app_fuzzy, lines 237-241: the first test of the cache
AfterFirstTest == IF Truthy(app_cache) THEN "check2" ELSE "discovering"

find_app_fuzzy_call(t, q, th) == Enter(t, "find", q, th, AfterFirstTest)

\* WorkingAgent.launch_app, line 173, calling AppOperations.launch_app, which
\* at line 478 enters find_app_fuzzy with the default threshold
launch_app_call(t, q) == Enter(t, "launch", q, FUZZY_THRESHOLD, AfterFirstTest)

\* discover_apps called by the owner (WorkingAgent.__init__, line 141)
discover_apps_call(t) ==
  Enter(t, "discover", << >>, FUZZY_THRESHOLD, "discovering")

\* what the call hands back, from the result r of the body of
\* AppOperations.launch_app: status and bool are those of
\* AppOperations.launch_app, msg is the string of WorkingAgent.launch_app
LaunchReturn(t, r) ==
  LET h == launch_app_handle(r)
  IN  [NoRet EXCEPT !.status = h.status, !.bool = h.bool,
                    !.msg = agent_message(h, query[t])]

\* discover_apps, lines 213-231: the scan ends and the dict is published
discover_apps_publish(t, scan) ==
  /\ pc[t] = "discovering"
  /\ LET d == discover_apps(scan)
     IN  IF d.status = "returned"
           THEN /\ app_cache' = publish(app_cache, d.apps)
                /\ last_scan' = {d.apps}
                /\ found_apps' = (found_apps \/ Len(d.apps) > 0)
                /\ IF op[t] = "discover"
                     THEN /\ pc' = [pc EXCEPT ![t] = "done"]
                          /\ ret' = [ret EXCEPT ![t] =
                                [NoRet EXCEPT !.status = "returned",
                                              !.names = Keys(d.apps)]]
                     ELSE /\ pc' = [pc EXCEPT ![t] = "check2"]
                          /\ ret' = ret
           ELSE /\ app_cache' = app_cache
                /\ last_scan' = last_scan
                /\ found_apps' = found_apps
                /\ pc' = [pc EXCEPT ![t] = "done"]
                /\ ret' = [ret EXCEPT ![t] =
                      IF op[t] \in {"find", "discover"}
                        THEN [NoRet EXCEPT !.status = "raised"]
                        ELSE LaunchReturn(t, Raised(<< >>))]
  /\ UNCHANGED <<extra_vars, launcher_vars, system, op, query, threshold, matched, scored, branch,
                 app_path, attempted, best_score>>

\* find_app_fuzzy, lines 243-244: the second test of the cache
find_app_fuzzy_check(t) ==
  /\ pc[t] = "check2"
  /\ IF Truthy(app_cache)
       THEN /\ pc' = [pc EXCEPT ![t] = "score"]
            /\ ret' = ret
       ELSE IF op[t] = "find"
         THEN /\ pc' = [pc EXCEPT ![t] = "done"]
              /\ ret' = [ret EXCEPT ![t] = [NoRet EXCEPT !.status = "returned"]]
         ELSE /\ pc' = [pc EXCEPT ![t] = "la_check"]
              /\ ret' = ret
  /\ UNCHANGED <<extra_vars, launcher_vars, system, app_cache, op, query, threshold, matched, scored,
                 branch, app_path, attempted, found_apps, last_scan,
                 best_score>>

\* the scoring loop with best_score kept on the instance: it starts from the
\* value the other caller's loop left instead of 0
find_app_fuzzy_score_shared_best(t) ==
  /\ pc[t] = "score"
  /\ \E idx \in app_cache, o \in Threads \ {t} :
       LET best == best_from(Keys(idx), 1, query[t], threshold[t],
                             [match |-> {}, score |-> best_score[o]])
       IN  /\ matched' = [matched EXCEPT ![t] = best.match]
           /\ best_score' = [best_score EXCEPT ![t] = best.score]
           /\ scored' = [scored EXCEPT ![t] = {idx}]
           /\ IF op[t] = "find"
                THEN /\ pc' = [pc EXCEPT ![t] = "done"]
                     /\ ret' = [ret EXCEPT ![t] =
                           [NoRet EXCEPT !.status = "returned",
                                         !.match = best.match]]
                ELSE /\ pc' = [pc EXCEPT ![t] = "la_check"]
                     /\ ret' = ret
  /\ UNCHANGED <<extra_vars, launcher_vars, system, app_cache, op, query, threshold, branch, app_path,
                 attempted, found_apps, last_scan>>

\* find_app_fuzzy, lines 246-333: the loop over the dict self._app_cache
\* refers to when the loop starts
find_app_fuzzy_score(t) ==
  /\ pc[t] = "score"
  /\ \E idx \in app_cache :
       LET best == best_match_of(Keys(idx), query[t], threshold[t])
       IN  /\ matched' = [matched EXCEPT ![t] = best.match]
           /\ best_score' = [best_score EXCEPT ![t] = best.score]
           /\ scored' = [scored EXCEPT ![t] = {idx}]
           /\ IF op[t] = "find"
                THEN /\ pc' = [pc EXCEPT ![t] = "done"]
                     /\ ret' = [ret EXCEPT ![t] =
                           [NoRet EXCEPT !.status = "returned",
                                         !.match = best.match]]
                ELSE /\ pc' = [pc EXCEPT ![t] = "la_check"]
                     /\ ret' = ret
  /\ UNCHANGED <<extra_vars, launcher_vars, system, app_cache, op, query, threshold, branch, app_path,
                 attempted, found_apps, last_scan>>

\* launch_app, line 480: matched_app and self._app_cache
launch_app_check(t) ==
  /\ pc[t] = "la_check"
  /\ pc' = [pc EXCEPT ![t] =
        IF matched[t] # {} /\ (\A m \in matched[t] : Len(m) > 0)
           /\ Truthy(app_cache)
          THEN "la_lookup" ELSE "la_direct"]
  /\ UNCHANGED <<extra_vars, launcher_vars, system, app_cache, op, query, threshold, matched, scored,
                 branch, app_path, attempted, ret, found_apps, last_scan,
                 best_score>>

\* launch_app, lines 481-492: the descriptor is read from self._app_cache
\* and the matched app is launched
launch_app_matched(t) ==
  /\ pc[t] = "la_lookup"
  /\ \E idx \in app_cache, m \in matched[t] :
       IF HasKey(idx, m)
         THEN \E fs \in FsKinds(system, Lookup(idx, m)), out \in LaunchEnvs(system) :
              LET r == dispatch_launch(system, m, Lookup(idx, m), fs, out)
              IN  /\ branch' = [branch EXCEPT ![t] = "matched"]
                  /\ app_path' = [app_path EXCEPT ![t] = {Lookup(idx, m)}]
                  /\ attempted' = [attempted EXCEPT ![t] = r.attempted]
                  /\ ret' = [ret EXCEPT ![t] = LaunchReturn(t, r)]
         ELSE /\ branch' = [branch EXCEPT ![t] = "keyerror"]
              /\ app_path' = app_path
              /\ attempted' = attempted
              /\ ret' = [ret EXCEPT ![t] = LaunchReturn(t, Raised(<< >>))]
  /\ pc' = [pc EXCEPT ![t] = "done"]
  /\ UNCHANGED <<extra_vars, launcher_vars, system, app_cache, op, query, threshold, matched, scored,
                 found_apps, last_scan, best_score>>

\* launch_app, lines 493-505: the fallback to a direct launch of app_name
launch_app_direct(t) ==
  /\ pc[t] = "la_direct"
  /\ \E fs \in FsKinds(system, RawPath(query[t])), out \in LaunchEnvs(system) :
     LET r == dispatch_launch(system, query[t], RawPath(query[t]), fs, out)
     IN  /\ branch' = [branch EXCEPT ![t] = "direct"]
         /\ app_path' = app_path
         /\ attempted' = [attempted EXCEPT ![t] = r.attempted]
         /\ ret' = [ret EXCEPT ![t] = LaunchReturn(t, r)]
  /\ pc' = [pc EXCEPT ![t] = "done"]
  /\ UNCHANGED <<extra_vars, launcher_vars, system, app_cache, op, query, threshold, matched, scored,
                 found_apps, last_scan, best_score>>

(***************************************************************************)
(* Specifications                                                          *)
(***************************************************************************)
ConcIndices == IndicesOf(system, ConcNames, MaxApps)

Next ==
  \/ \E t \in Threads, q \in ConcQueries, th \in ConcThresholds :
       find_app_fuzzy_call(t, q, th)
  \/ \E t \in Threads, q \in ConcQueries : launch_app_call(t, q)
  \/ \E t \in Threads : discover_apps_call(t)
  \/ \E t \in Threads : \E scan \in ScanOutcomes(system, ConcIndices) :
       discover_apps_publish(t, scan)
  \/ \E t \in Threads : find_app_fuzzy_check(t)
  \/ \E t \in Threads : find_app_fuzzy_score(t)
  \/ \E t \in Threads : launch_app_check(t)
  \/ \E t \in Threads : launch_app_matched(t)
  \/ \E t \in Threads : launch_app_direct(t)

Spec == Init /\ [][Next]_vars

\* find_app_fuzzy as a function of the index and the query: one caller, the
\* index drawn from ScoreIndices
ScoreIndices == IndicesOf("linux", ScoreNames, MaxScoreApps)

InitScore == Init /\ system = "linux"

NextScore ==
  \/ \E q \in ScoreQueries, th \in ScoreThresholds :
       find_app_fuzzy_call("t1", q, th)
  \/ \E scan \in ScanOutcomes("linux", ScoreIndices) :
       discover_apps_publish("t1", scan)
  \/ find_app_fuzzy_check("t1")
  \/ find_app_fuzzy_score("t1")

SpecScore == InitScore /\ [][NextScore]_vars

(***************************************************************************)
(* The module load of app_launcher/launcher.py                             *)
(***************************************************************************)
\* json.load(f) on the file opened with encoding="utf-8", lines 74-75
json_load(file) ==
  IF file.kind = "json"
    THEN [status |-> "ok",
          value |-> [isdict |-> file.isdict, entries |-> file.entries]]
  ELSE IF file.kind = "not_json"
    THEN [status |-> "JSONDecodeError", value |-> NoApps]
  ELSE [status |-> "UnicodeDecodeError", value |-> NoApps]

\* lines 77-79 and 81-83: discovery, then the cache file is written
rediscover ==
  \E apps \in StartMenus :
    /\ installed_apps' = [isdict |-> TRUE, entries |-> apps]
    /\ cache_file' = JsonDict(apps)
    /\ discovered' = TRUE
    /\ load_pc' = "folders"

\* lines 72-83: load apps (with cache)
load_cache ==
  /\ load_pc = "start"
  /\ IF cache_file.kind = "missing" THEN rediscover
     ELSE LET r == json_load(cache_file)
          IN  IF r.status = "ok"
                THEN /\ installed_apps' = r.value
                     /\ load_pc' = "folders"
                     /\ UNCHANGED <<cache_file, discovered>>
              ELSE IF r.status = "JSONDecodeError" THEN rediscover
              ELSE /\ load_pc' = "crashed_cache"
                   /\ UNCHANGED <<cache_file, discovered, installed_apps>>
  /\ UNCHANGED <<cache_before, folder_env, user_folders, items,
                 candidate_labels, candidate_to_item>>
  /\ UNCHANGED <<ops_vars, extra_vars>>

\* line 88: user_folders = folders.get_user_folders()
load_user_folders ==
  /\ load_pc = "folders"
  /\ \E env \in FolderEnvs :
       LET r == get_user_folders(env)
       IN  /\ folder_env' = env
           /\ IF r.status = "returned"
                THEN /\ user_folders' = r.folders
                     /\ load_pc' = "apps"
                ELSE /\ user_folders' = user_folders
                     /\ load_pc' = "crashed_folders"
  /\ UNCHANGED <<cache_file, cache_before, discovered, installed_apps, items,
                 candidate_labels, candidate_to_item>>
  /\ UNCHANGED <<ops_vars, extra_vars>>

\* lines 93-130: items and alias labels of the apps; installed_apps.items()
\* raises when the cache held JSON that is not an object
build_apps ==
  /\ load_pc = "apps"
  /\ IF installed_apps.isdict
       THEN \E st \in index_apps(installed_apps.entries, 1, {EmptyIndex}) :
              /\ items' = st.items
              /\ candidate_labels' = st.candidate_labels
              /\ candidate_to_item' = st.candidate_to_item
              /\ load_pc' = "user_folders"
       ELSE /\ load_pc' = "crashed_apps"
            /\ UNCHANGED <<items, candidate_labels, candidate_to_item>>
  /\ UNCHANGED <<cache_file, cache_before, discovered, installed_apps,
                 folder_env, user_folders>>
  /\ UNCHANGED <<ops_vars, extra_vars>>

\* lines 133-172: items and alias labels of the folders and sub-folders
build_folders ==
  /\ load_pc = "user_folders"
  /\ \E st \in index_folders(user_folders, 1,
                 {[items |-> items, candidate_labels |-> candidate_labels,
                   candidate_to_item |-> candidate_to_item]}) :
       /\ items' = st.items
       /\ candidate_labels' = st.candidate_labels
       /\ candidate_to_item' = st.candidate_to_item
  /\ load_pc' = "ready"
  /\ UNCHANGED <<cache_file, cache_before, discovered, installed_apps,
                 folder_env, user_folders>>
  /\ UNCHANGED <<ops_vars, extra_vars>>

InitLoad ==
  /\ InitOps
  /\ system = "windows"
  /\ \E file \in CacheFiles : LauncherAt("start", file)
  /\ DiscoveryAt("idle", NoScanEnv)
  /\ InitGlue

NextLoad ==
  \/ load_cache
  \/ load_user_folders
  \/ build_apps
  \/ build_folders

SpecLoad == InitLoad /\ [][NextLoad]_vars

(***************************************************************************)
(* One discovery pass, source by source                                    *)
(***************************************************************************)
\* what a discovery step leaves alone
DiscoveryFrame ==
  UNCHANGED <<launcher_vars, glue_vars, system, scan_env, pc, op, query,
              threshold, matched, scored, branch, app_path, attempted, ret,
              best_score>>

\* the step of a pass that scanned one source with result r
ScanStep(r) ==
  /\ IF r.status = "returned"
       THEN scan_apps' = r.apps /\ scan_pc' = scan_pc /\ scan_at' = scan_at + 1
       ELSE scan_apps' = << >> /\ scan_pc' = "raised" /\ scan_at' = scan_at
  /\ UNCHANGED <<app_cache, found_apps, last_scan>>
  /\ DiscoveryFrame

\* _discover_macos_apps, lines 34-43: one of the two directories
discover_macos_dir ==
  /\ scan_pc = "scanning" /\ system = "darwin"
  /\ scan_at <= Len(scan_env.dirs)
  /\ ScanStep(scan_dir("macos", scan_apps, scan_at, scan_env.dirs[scan_at], FirstBin))

\* _discover_linux_apps, lines 57-67: one desktop-entry directory
discover_linux_desktop_dir ==
  /\ scan_pc = "scanning" /\ system = "linux"
  /\ scan_at < FirstBin
  /\ ScanStep(scan_dir("desktop", scan_apps, scan_at, scan_env.dirs[scan_at], FirstBin))

\* _discover_linux_apps, lines 70-86: one bin directory
discover_linux_bin_dir ==
  /\ scan_pc = "scanning" /\ system = "linux"
  /\ scan_at >= FirstBin /\ scan_at <= Len(scan_env.dirs)
  /\ ScanStep(scan_dir("bin", scan_apps, scan_at, scan_env.dirs[scan_at], FirstBin))

\* _discover_windows_apps, lines 93-127: Get-StartApps
discover_windows_start_apps ==
  /\ scan_pc = "scanning" /\ system = "windows"
  /\ scan_at = 1
  /\ ScanStep(windows_query("start_apps", scan_apps, scan_env.queries[1]))

\* _discover_windows_apps, lines 129-176: Get-AppxPackage
discover_windows_appx ==
  /\ scan_pc = "scanning" /\ system = "windows"
  /\ scan_at = 2
  /\ ScanStep(windows_query("appx", scan_apps, scan_env.queries[2]))

\* _discover_windows_apps, lines 178-208: Start Menu shortcuts
discover_windows_shortcuts ==
  /\ scan_pc = "scanning" /\ system = "windows"
  /\ scan_at = 3
  /\ ScanStep([status |-> "returned",
               apps |-> windows_shortcuts(scan_apps, scan_env.menus, 1)])

\* the number of sources of the platform's scan
SourcesOf(sys, env) ==
  IF sys = "windows" THEN 3
  ELSE IF sys = "other" THEN 0
  ELSE Len(env.dirs)

\* discover_apps, lines 215-231: the scan has returned its dict or raised;
\* the dict is published and the names are returned
discover_apps_return ==
  /\ scan_pc \in {"scanning", "raised"}
  /\ scan_pc = "scanning" => scan_at > SourcesOf(system, scan_env)
  /\ LET d == discover_apps([status |-> IF scan_pc = "raised" THEN "raised"
                                        ELSE "returned",
                             apps |-> scan_apps])
     IN  /\ scan_pc' = (IF d.status = "returned" THEN "returned" ELSE "escaped")
         /\ IF d.status = "returned"
              THEN /\ app_cache' = publish(app_cache, d.apps)
                   /\ last_scan' = {d.apps}
                   /\ found_apps' = (found_apps \/ Len(d.apps) > 0)
              ELSE UNCHANGED <<app_cache, last_scan, found_apps>>
  /\ UNCHANGED <<scan_apps, scan_at>>
  /\ DiscoveryFrame

InitDiscover ==
  /\ InitOps
  /\ LauncherAt("unloaded", NoCacheFile)
  /\ system \in Systems
  /\ \E env \in ScanEnvs(system) : DiscoveryAt("scanning", env)
  /\ InitGlue

NextDiscover ==
  \/ discover_macos_dir
  \/ discover_linux_desktop_dir
  \/ discover_linux_bin_dir
  \/ discover_windows_start_apps
  \/ discover_windows_appx
  \/ discover_windows_shortcuts
  \/ discover_apps_return

SpecDiscover == InitDiscover /\ [][NextDiscover]_vars

(***************************************************************************)
(* POST /transcribe: api/server.py lines 92-139 (and the older main.py),   *)
(* with TranscriptionService.transcribe_file.  Requests are handled by     *)
(* coroutines of one event loop: a step is the code between two awaits.    *)
(***************************************************************************)
TranscribeFrame ==
  UNCHANGED <<engine_vars, wyoming_vars, service_vars, shell_vars,
              assistant_vars>>

HTTPException(code, detail) == [status_code |-> code, detail |-> detail]

\* os.unlink(path)
unlink(files, f) == files \ {f}

\* if os.path.exists(path): os.unlink(path)
unlink_if_exists(files, f) == IF f \in files THEN unlink(files, f) ELSE files

\* the handler ends with the response resp
Respond(r, resp) ==
  /\ req_pc' = [req_pc EXCEPT ![r] = "responded"]
  /\ response' = [response EXCEPT ![r] = resp]

\* lines 95-98: tempfile.NamedTemporaryFile(..., delete=False) creates the
\* file, or raises, which the outer handler at lines 136-139 turns into a
\* 500
create_temp_file(r) ==
  /\ req_pc[r] = "idle"
  /\ \E created \in BOOLEAN :
       IF created
         THEN /\ temp_files' = temp_files \cup {<<r, "upload">>}
              /\ req_pc' = [req_pc EXCEPT ![r] = "reading"]
              /\ response' = response
         ELSE /\ temp_files' = temp_files
              /\ Respond(r, HTTPException(500, "Request processing error"))
  /\ TranscribeFrame

\* lines 98-100: content = await audio.read(); tmp_file.write(content); an
\* exception of either leaves the with block, which closes the file, and is
\* caught at line 136
read_upload(r) ==
  /\ req_pc[r] = "reading"
  /\ \E ok \in BOOLEAN :
       IF ok
         THEN /\ req_pc' = [req_pc EXCEPT ![r] = "saved"]
              /\ response' = response
         ELSE Respond(r, HTTPException(500, "Request processing error"))
  /\ temp_files' = temp_files
  /\ TranscribeFrame

\* transcribe_file, lines 85-89: the file for the WAV conversion is
\* created; when that raises, transcribe_file returns None (lines 106-109)
transcribe_file_begin(r) ==
  /\ req_pc[r] = "saved"
  /\ \E created \in BOOLEAN :
       IF created
         THEN /\ temp_files' = temp_files \cup {<<r, "wav">>}
              /\ req_pc' = [req_pc EXCEPT ![r] = "transcribing"]
         ELSE /\ temp_files' = temp_files
              /\ req_pc' = [req_pc EXCEPT ![r] = "returned_none"]
  /\ response' = response
  /\ TranscribeFrame

\* what awaiting transcribe_file under asyncio.wait_for ends with
TranscribeOutcomes == {"text", "exception", "timeout"}

\* transcribe_file, lines 91-109, under wait_for (server.py lines 104-107):
\* the conversion and the transcription end with a text, an exception
\* (returned as None) or the cancellation by the timeout; the finally
\* clause removes the WAV file in each case
transcribe_file_end(r) ==
  /\ req_pc[r] = "transcribing"
  /\ \E o \in TranscribeOutcomes :
       req_pc' = [req_pc EXCEPT ![r] =
                    IF o = "text" THEN "returned_text"
                    ELSE IF o = "exception" THEN "returned_none"
                    ELSE "timed_out"]
  /\ temp_files' = unlink_if_exists(temp_files, <<r, "wav">>)
  /\ response' = response
  /\ TranscribeFrame

\* lines 109-132: the upload file is removed and the response is produced
respond(r) ==
  /\ req_pc[r] \in {"returned_text", "returned_none", "timed_out"}
  /\ IF req_pc[r] = "returned_text"
       THEN /\ temp_files' = unlink(temp_files, <<r, "upload">>)
            /\ Respond(r, [status_code |-> 200, detail |-> "transcription"])
     ELSE IF req_pc[r] = "returned_none"
       THEN \* line 115 raises inside the try: caught at line 125
            /\ temp_files' = unlink_if_exists(unlink(temp_files, <<r, "upload">>),
                                              <<r, "upload">>)
            /\ Respond(r, HTTPException(500, "Transcription error"))
     ELSE /\ temp_files' = unlink_if_exists(temp_files, <<r, "upload">>)
          /\ Respond(r, HTTPException(500, "Transcription timeout"))
  /\ TranscribeFrame

NextTranscribe ==
  \/ \E r \in Requests : create_temp_file(r)
  \/ \E r \in Requests : read_upload(r)
  \/ \E r \in Requests : transcribe_file_begin(r)
  \/ \E r \in Requests : transcribe_file_end(r)
  \/ \E r \in Requests : respond(r)

SpecTranscribe == Init /\ [][NextTranscribe]_vars

(***************************************************************************)
(* WyomingClient.send_event and receive_event over one connection whose    *)
(* peer hands every byte back in order                                     *)
(***************************************************************************)
WyomingFrame ==
  UNCHANGED <<engine_vars, transcribe_vars, service_vars, shell_vars,
              assistant_vars>>

\* send_event, lines 24-44
send_event(header, payload) ==
  /\ Len(sent) < MaxEvents
  /\ wire' = wire \o frame(Event(header, payload))
  /\ sent' = Append(sent, Event(header, payload))
  /\ UNCHANGED <<received, recv_pc, recv_header>>
  /\ WyomingFrame

HeaderLengthBytes == 4

\* receive_event, lines 51-59: readexactly(4), readexactly(header_length),
\* json.loads and WyomingHeader(**header_data); readexactly waits until the
\* bytes are there
receive_header ==
  /\ recv_pc = "idle"
  /\ Len(wire) >= HeaderLengthBytes
  /\ LET header_length == unpack_I(SubSeq(wire, 1, HeaderLengthBytes))
         last == HeaderLengthBytes + header_length
     IN  /\ Len(wire) >= last
         /\ wire' = SubSeq(wire, last + 1, Len(wire))
         /\ LET text == decode(SubSeq(wire, HeaderLengthBytes + 1, last))
                hs == UNION {parse_header(t) : t \in text}
            IN  IF hs = {}
                  THEN recv_pc' = "raised" /\ recv_header' = {}
                  ELSE recv_pc' = "payload" /\ recv_header' = hs
  /\ UNCHANGED <<sent, received>>
  /\ WyomingFrame

\* receive_event, lines 61-65: the payload is read when the header has a
\* payload_length above zero
receive_payload ==
  /\ recv_pc = "payload"
  /\ \E h \in recv_header :
       IF h.payload_length # {} /\ (\A n \in h.payload_length : n > 0)
         THEN \E n \in h.payload_length :
                /\ Len(wire) >= n
                /\ wire' = SubSeq(wire, n + 1, Len(wire))
                /\ received' = Append(received, Event(h, {SubSeq(wire, 1, n)}))
         ELSE /\ wire' = wire
              /\ received' = Append(received, Event(h, {}))
  /\ recv_pc' = "idle"
  /\ recv_header' = {}
  /\ sent' = sent
  /\ WyomingFrame

NextWyoming ==
  \/ \E header \in Headers, payload \in Payloads : send_event(header, payload)
  \/ receive_header
  \/ receive_payload

SpecWyoming == Init /\ [][NextWyoming]_vars

(***************************************************************************)
(* services/transcription_service.py: the singleton, cleanup and shutdown. *)
(* Objects are numbered in the order of their creation.                    *)
(***************************************************************************)
MaxInstances == 3
MaxPools == 3

ServiceFrame ==
  UNCHANGED <<engine_vars, transcribe_vars, wyoming_vars, shell_vars,
              assistant_vars>>

\* the attributes of a TranscriptionService object after __init__ ran
Attributes(executor, model) ==
  [initialized |-> TRUE, executor |-> executor, model |-> model]

\* TranscriptionService(): __new__, lines 20-23, then __init__, lines
\* 25-49, which does nothing on an object that has the attribute initialized
construct(owner) ==
  /\ IF cls_instance # {}
       THEN \* the existing object is returned; it is initialized
            /\ obtained' = cls_instance
            /\ UNCHANGED <<cls_instance, cls_model, cls_executor, instances,
                           pools, models>>
       ELSE /\ Len(instances) < MaxInstances
            /\ cls_executor = {} => Len(pools) < MaxPools
            /\ LET executor == IF cls_executor = {} THEN Len(pools) + 1
                               ELSE CHOOSE e \in cls_executor : TRUE
                   model == IF cls_model = {} THEN models + 1
                            ELSE CHOOSE m \in cls_model : TRUE
               IN  /\ pools' = (IF cls_executor = {} THEN Append(pools, FALSE)
                                ELSE pools)
                   /\ models' = (IF cls_model = {} THEN models + 1 ELSE models)
                   /\ cls_executor' = {executor}
                   /\ cls_model' = {model}
                   /\ instances' = Append(instances, Attributes(executor, model))
                   /\ cls_instance' = {Len(instances) + 1}
                   /\ obtained' = {Len(instances) + 1}
  /\ held' = [held EXCEPT ![owner] = obtained']
  /\ submitted' = submitted
  /\ last_call' = "construct"
  /\ ServiceFrame

\* cleanup, lines 51-72, called on the object self: the class's pool is shut
\* down and the class's references are cleared; the attributes of self stay
cleanup_body ==
  /\ pools' = [e \in 1..Len(pools) |-> pools[e] \/ e \in cls_executor]
  /\ cls_executor' = {}
  /\ cls_model' = {}

\* WorkingAgent.cleanup, line 151: self.transcription_service.cleanup()
cleanup(owner) ==
  /\ held[owner] # {}
  /\ cleanup_body
  /\ last_call' = "cleanup"
  /\ UNCHANGED <<cls_instance, instances, models, obtained, held, submitted>>
  /\ ServiceFrame

\* transcribe_file, lines 94-98: loop.run_in_executor(self.executor, ...);
\* a pool that has been shut down raises RuntimeError on submit
run_in_executor(owner) ==
  /\ held[owner] # {}
  /\ submitted' = [submitted EXCEPT ![owner] =
        IF \E i \in held[owner] : pools[instances[i].executor]
          THEN "RuntimeError" ELSE "scheduled"]
  /\ last_call' = "transcribe_file"
  /\ UNCHANGED <<cls_instance, cls_model, cls_executor, instances, pools,
                 models, obtained, held>>
  /\ ServiceFrame

\* shutdown, lines 74-80 (server.py line 80)
shutdown ==
  /\ IF cls_instance # {}
       THEN cleanup_body /\ cls_instance' = {}
       ELSE UNCHANGED <<pools, cls_executor, cls_model, cls_instance>>
  /\ last_call' = "shutdown"
  /\ UNCHANGED <<instances, models, obtained, held, submitted>>
  /\ ServiceFrame

NextService ==
  \/ \E owner \in Owners : construct(owner)
  \/ cleanup("agent")
  \/ \E owner \in Owners : run_in_executor(owner)
  \/ shutdown

SpecService == Init /\ [][NextService]_vars

(***************************************************************************)
(* UtilityFunctions.execute_shell_command                                  *)
(***************************************************************************)
ShellFrame ==
  UNCHANGED <<engine_vars, transcribe_vars, wyoming_vars, service_vars,
              assistant_vars>>

\* lines 90-92: the command is validated; a command that is not allowed is
\* answered with the error and nothing is run
execute_shell_command_validate ==
  /\ shell_pc = "called"
  /\ IF validate_shell_command(system, command)
       THEN /\ shell_pc' = "validated"
            /\ shell_result' = shell_result
       ELSE /\ shell_pc' = "returned"
            /\ shell_result' = [NoResult EXCEPT !.error = "Command not allowed"]
  /\ UNCHANGED <<command, started>>
  /\ ShellFrame

\* lines 94-116: subprocess.run(command, shell=True, ...); OSError is the
\* shell itself failing to start
execute_shell_command_run ==
  /\ shell_pc = "validated"
  /\ \E o \in RunOutcomes, code \in {0, 1} :
       /\ started' = (IF o = "OSError" THEN started
                      ELSE started \cup shell_programs(system, command))
       /\ shell_result' =
            IF o = "completed" THEN [NoResult EXCEPT !.exit_code = {code}]
            ELSE IF o = "TimeoutExpired"
              THEN [NoResult EXCEPT !.error = "Command timed out"]
            ELSE [NoResult EXCEPT !.error = "Error executing command"]
  /\ shell_pc' = "returned"
  /\ command' = command
  /\ ShellFrame

InitShell ==
  /\ InitOps
  /\ LauncherAt("unloaded", NoCacheFile)
  /\ DiscoveryAt("idle", NoScanEnv)
  /\ InitTranscribe /\ InitWyoming /\ InitService /\ InitAssistant
  /\ \E cmd \in Commands : ShellAt("called", cmd)

NextShell ==
  \/ execute_shell_command_validate
  \/ execute_shell_command_run

SpecShell == InitShell /\ [][NextShell]_vars

(***************************************************************************)
(* vaakya_assistant.py: run_assistant                                      *)
(***************************************************************************)
AssistantFrame ==
  UNCHANGED <<engine_vars, transcribe_vars, wyoming_vars, service_vars,
              shell_vars>>

\* lines 139-144: the wake word is detected, the prompt is spoken and the
\* conversation window starts
listen_for_wakeword ==
  /\ asst_pc = "waiting"
  /\ asst_pc' = "recording"
  /\ elapsed_sec' = 0
  /\ tts' = "How can I help you?"
  /\ UNCHANGED <<utterance, answer, launched>>
  /\ AssistantFrame

\* lines 146-147: record_until_silence returns after the user spoke and fell
\* silent; transcription = None
record_until_silence ==
  /\ asst_pc = "recording"
  /\ \E said \in Utterances, d \in RecordSeconds :
       /\ utterance' = said
       /\ elapsed_sec' = (IF elapsed_sec + d > MaxElapsed THEN MaxElapsed
                          ELSE elapsed_sec + d)
  /\ asst_pc' = "posting"
  /\ answer' = {}
  /\ UNCHANGED <<tts, launched>>
  /\ AssistantFrame

\* lines 148-206: the recording is posted and the answer is acted on, up to
\* the continue or break that ends the turn
conversation_turn ==
  /\ asst_pc = "posting"
  /\ \E a \in Answers(utterance) :
       /\ answer' = {a}
       /\ IF ~a.ok
            \* lines 154-157: not ok
            THEN /\ tts' = "Sorry, something went wrong."
                 /\ asst_pc' = "recording"
                 /\ launched' = launched
          ELSE LET text == CHOOSE t \in a.transcription : TRUE
                   cmd  == command_of(text)
                   done == handle_command(cmd)
               IN  IF is_blank(text)
                     \* lines 159-163
                     THEN IF elapsed_sec > conversation_window_sec
                            THEN /\ tts' = "Going back to sleep."
                                 /\ asst_pc' = "waiting"
                                 /\ launched' = launched
                            ELSE /\ asst_pc' = "recording"
                                 /\ UNCHANGED <<tts, launched>>
                   \* lines 168-170
                   ELSE IF is_exit(cmd)
                     THEN /\ tts' = "Okay, going back to sleep."
                          /\ asst_pc' = "waiting"
                          /\ launched' = launched
                   \* lines 172-206
                   ELSE /\ launched' = done.opened
                        /\ IF elapsed_sec > conversation_window_sec
                             THEN /\ tts' = "Conversation timed out."
                                  /\ asst_pc' = "waiting"
                             ELSE /\ tts' = done.spoken
                                  /\ asst_pc' = "recording"
  /\ UNCHANGED <<elapsed_sec, utterance>>
  /\ AssistantFrame

NextAssistant ==
  \/ listen_for_wakeword
  \/ record_until_silence
  \/ conversation_turn

\* a recording ends and a request is answered: both calls return
SpecAssistant ==
  /\ Init
  /\ [][NextAssistant]_vars
  /\ WF_vars(record_until_silence)
  /\ WF_vars(conversation_turn)

(***************************************************************************)
(* Properties                                                              *)
(***************************************************************************)
Done(t, o) == pc[t] = "done" /\ op[t] = o

Normalized(q) == strip(lower(q))

AllFailed(att) == Len(att) > 0 /\ \A i \in 1..Len(att) : ~att[i].ok

\* C1: a query that equals, after lower-casing and trimming, the name of an
\* indexed app makes find_app_fuzzy (default threshold) return that app, and
\* the app's final score is the maximum over the index.
C1_ExactNameWins ==
  \A t \in Threads :
    (Done(t, "find") /\ threshold[t] = FUZZY_THRESHOLD) =>
      \A idx \in scored[t] : \A i \in 1..Len(idx) :
        (Normalized(query[t]) = idx[i].name) =>
          /\ ret[t].match = {idx[i].name}
          /\ \A j \in 1..Len(idx) :
               final_score(query[t], idx[j].name)
                 <= final_score(query[t], idx[i].name)

\* C2: find_app_fuzzy returns None when every indexed app scores below the
\* threshold, and an app it returns never scores below the threshold.
C2_NoMatchBelowThreshold ==
  \A t \in Threads :
    Done(t, "find") =>
      \A idx \in scored[t] :
        /\ (\A i \in 1..Len(idx) :
              final_score(query[t], idx[i].name) < threshold[t])
             => ret[t].match = {}
        /\ \A m \in ret[t].match :
             /\ HasKey(idx, m)
             /\ final_score(query[t], m) >= threshold[t]

\* C2 case: an indexed app has a positive score below the threshold and the
\* call returned None.
C2_Witness ==
  \E t \in Threads :
    /\ Done(t, "find")
    /\ ret[t].status = "returned"
    /\ ret[t].match = {}
    /\ \E idx \in scored[t] : \E i \in 1..Len(idx) :
         /\ final_score(query[t], idx[i].name) > 0
         /\ final_score(query[t], idx[i].name) < threshold[t]

\* C3: an empty or whitespace-only query is rejected before scoring:
\* find_app_fuzzy returns no match and launch_app runs no launch method.
C3_BlankQueryRejected ==
  \A t \in Threads :
    (op[t] \in {"find", "launch"} /\ Normalized(query[t]) = << >>) =>
      /\ pc[t] # "score"
      /\ matched[t] = {}
      /\ ret[t].match = {}
      /\ attempted[t] = << >>

\* C4: when find_app_fuzzy returned None, launch_app reports failure and runs
\* no launch method.
C4_NoMatchNoLaunch ==
  \A t \in Threads :
    (Done(t, "launch") /\ matched[t] = {}) =>
      /\ attempted[t] = << >>
      /\ ret[t].status = "returned"
      /\ ret[t].bool = FALSE

\* C5: the message for "nothing matched" differs from the message for
\* "matched but could not be launched".
C5_MessagesDistinguish ==
  \A t1, t2 \in Threads :
    ( /\ Done(t1, "launch") /\ matched[t1] = {} /\ ~ret[t1].bool
      /\ Done(t2, "launch") /\ branch[t2] = "matched" /\ ~ret[t2].bool )
      => ret[t1].msg # ret[t2].msg

\* C6: launch_app never raises: it returns a boolean on every platform and
\* for every combination of method failures, and False when every method it
\* ran failed.
C6_LaunchNeverRaises ==
  \A t \in Threads :
    Done(t, "launch") =>
      /\ ret[t].status = "returned"
      /\ ret[t].bool \in BOOLEAN
      /\ AllFailed(attempted[t]) => ret[t].bool = FALSE

\* C6 case: every method of the platform's chain was run and failed, and the
\* call returned False.
C6_Witness ==
  \E t \in Threads :
    /\ Done(t, "launch")
    /\ AllFailed(attempted[t])
    /\ Len(attempted[t]) = (IF system = "darwin" THEN 1 ELSE 3)
    /\ ret[t].status = "returned"
    /\ ret[t].bool = FALSE

\* the launch methods a returned value names
ReportedMethods(r) ==
  IF "attempted" \in DOMAIN r
    THEN {r.attempted[i].method : i \in 1..Len(r.attempted)}
    ELSE {}

\* C7: on Linux the methods run in the order gtk-launch, direct, nohup; when
\* the first fails and the second succeeds the call reports success, the
\* third is not run, and the reported result records the first as attempted.
C7_LinuxFallbackOrder ==
  \A t \in Threads :
    (Done(t, "launch") /\ system = "linux") =>
      /\ \A i \in 1..Len(attempted[t]) :
           i <= Len(linux_commands) /\ attempted[t][i].method = linux_commands[i]
      /\ ( /\ Len(attempted[t]) >= 2
           /\ ~attempted[t][1].ok
           /\ attempted[t][2].ok )
           => /\ ret[t].bool = TRUE
              /\ Len(attempted[t]) = 2
              /\ "gtk-launch" \in ReportedMethods(ret[t])

\* C8: while discovery has yielded no apps, find_app_fuzzy returns None for
\* every query and launch_app returns a boolean; neither raises.
C8_EmptyIndex ==
  ~found_apps =>
    \A t \in Threads :
      /\ Done(t, "find") => (ret[t].status = "returned" /\ ret[t].match = {})
      /\ Done(t, "launch") => (ret[t].status = "returned" /\ ret[t].bool \in BOOLEAN)

\* C8 case: discovery ran, yielded the empty index, and a find for a
\* non-blank query returned None.
C8_Witness ==
  /\ ~found_apps
  /\ app_cache = {<< >>}
  /\ \E t \in Threads :
       /\ Done(t, "find")
       /\ Normalized(query[t]) # << >>
       /\ ret[t].status = "returned"
       /\ ret[t].match = {}

\* C9: two callers of find_app_fuzzy or launch_app never run discovery at the
\* same time.
C9_SingleDiscovery ==
  \A t1, t2 \in Threads :
    ( /\ t1 # t2
      /\ op[t1] \in {"find", "launch"}
      /\ op[t2] \in {"find", "launch"} )
      => ~(pc[t1] = "discovering" /\ pc[t2] = "discovering")

\* C10: in launch_app the descriptor comes from the index find_app_fuzzy
\* scored: after a match the lookup succeeds and yields that index's
\* descriptor, whatever discover_apps publishes in between.
C10_OneSnapshot ==
  \A t \in Threads :
    (Done(t, "launch") /\ matched[t] # {}) =>
      /\ branch[t] = "matched"
      /\ \A idx \in scored[t], m \in matched[t] :
           app_path[t] = {Lookup(idx, m)}

\* C11: discover_apps publishes by one replacement of the whole mapping: the
\* published mapping is always exactly the dict the latest finished scan
\* returned, never a mixture with the previous one, and the dict a scoring
\* loop starts to iterate is that whole dict.
C11_WholeIndexPublished ==
  [][ /\ app_cache' = last_scan'
      /\ \A t \in Threads :
           (scored'[t] # scored[t] /\ scored'[t] # {}) =>
             (scored'[t] = app_cache /\ scored'[t] = last_scan) ]_vars

\* C11 case: a find scored one complete non-empty index while a refresh
\* replaced the published mapping by another non-empty one.
C11_Witness ==
  \E t \in Threads :
    /\ Done(t, "find")
    /\ \E idx \in scored[t] : Len(idx) > 0
    /\ Truthy(app_cache)
    /\ app_cache # scored[t]
    /\ app_cache = last_scan

\* C12: with no explicit discover_apps() call, discovery runs at most once:
\* a find_app_fuzzy / launch_app call starts a discovery pass only if no
\* pass has finished before, whatever that pass returned.
C12_DiscoveryAtMostOnce ==
  [][ \A t \in Threads :
        ( /\ CanCall(t)
          /\ pc'[t] = "discovering"
          /\ op'[t] \in {"find", "launch"} )
          => last_scan = {} ]_vars

C14_OpenCalc ==
  \A t \in Threads :
    ( /\ Done(t, "find")
      /\ threshold[t] = FUZZY_THRESHOLD
      /\ query[t] = S_open_calc
      /\ \E idx \in scored[t] : Keys(idx) = <<S_calculator>> )
      => /\ ret[t].match = {S_calculator}
         /\ best_score[t] >= FUZZY_THRESHOLD
         /\ best_score[t] = final_score(S_open_calc, S_calculator)

\* C14 case: find_app_fuzzy("open calc") returned "calculator" from the index
\* that holds only that app.
C14_Witness ==
  \E t \in Threads :
    /\ Done(t, "find")
    /\ threshold[t] = FUZZY_THRESHOLD
    /\ query[t] = S_open_calc
    /\ \E idx \in scored[t] : Keys(idx) = <<S_calculator>>
    /\ ret[t].match = {S_calculator}
    /\ word_matches(split(S_open_calc), split(S_calculator)) = 0
    /\ partial_matches(split(S_open_calc), split(S_calculator)) = 1

\* C15: when the index holds both "visual studio code" and "code", a query
\* that normalizes to "code" (default threshold) resolves to "code" in either
\* discovery order.
C15_CodeBeatsVisualStudioCode ==
  \A t \in Threads :
    ( /\ Done(t, "find")
      /\ threshold[t] = FUZZY_THRESHOLD
      /\ Normalized(query[t]) = S_code
      /\ \E idx \in scored[t] : HasKey(idx, S_code) /\ HasKey(idx, S_vs_code) )
      => /\ ret[t].match = {S_code}
         /\ final_score(query[t], S_code) > final_score(query[t], S_vs_code)

\* C15 case: "code" was discovered before "visual studio code" and the query
\* "code" returned "code".
C15_Witness ==
  \E t \in Threads :
    /\ Done(t, "find")
    /\ threshold[t] = FUZZY_THRESHOLD
    /\ query[t] = S_code
    /\ \E idx \in scored[t] : Keys(idx) = <<S_code, S_vs_code>>
    /\ ret[t].match = {S_code}

\* position of a name in an index
PositionOf(idx, name) == CHOOSE i \in 1..Len(idx) : idx[i].name = name

\* C19: among the indexed apps with the same highest final score,
\* find_app_fuzzy returns the one with the shortest name, and among those of
\* equal length the first discovered.
C19_TieBreakShortestThenFirst ==
  \A t \in Threads :
    Done(t, "find") =>
      \A idx \in scored[t], m \in ret[t].match :
        \A j \in 1..Len(idx) :
          (final_score(query[t], idx[j].name) = final_score(query[t], m)) =>
            /\ Len(m) <= Len(idx[j].name)
            /\ (Len(m) = Len(idx[j].name)) => PositionOf(idx, m) <= j

\* the length bracket of an app name: names up to BONUS_APP_NAME_LENGTH get
\* the bonus, names above PENALTY_APP_NAME_LENGTH the penalty
Bracket(app) ==
  IF Len(Normalized(app)) <= BONUS_APP_NAME_LENGTH THEN "bonus"
  ELSE IF Len(Normalized(app)) > PENALTY_APP_NAME_LENGTH THEN "penalty"
  ELSE "plain"

\* Token-exact: the query is one whole word of the app name, not all of it
IsTokenExact(q, app) ==
  /\ Normalized(q) # Normalized(app)
  /\ InWords(Normalized(q), split(Normalized(app)))

\* Prefix: the app name starts with the query, which is not a whole word of it
IsPrefixMatch(q, app) ==
  /\ Normalized(q) # Normalized(app)
  /\ ~InWords(Normalized(q), split(Normalized(app)))
  /\ startswith(Normalized(app), Normalized(q))

\* a scored index holds app a matched by Token-exact and app b matched by
\* Prefix for the query of the call, both of one length bracket
TokenAndPrefix(t, a, b) ==
  /\ Done(t, "find")
  /\ \E idx \in scored[t] : HasKey(idx, a) /\ HasKey(idx, b)
  /\ IsTokenExact(query[t], a)
  /\ IsPrefixMatch(query[t], b)
  /\ Bracket(a) = Bracket(b)

\* C20 as stated: the Token-exact weight is below the Prefix weight, so for
\* the same query the app matched by Prefix scores higher than the app of the
\* same length bracket matched by Token-exact.
C20_PrefixAboveTokenExact ==
  \A t \in Threads : \A a, b \in ScoreNames :
    TokenAndPrefix(t, a, b) =>
      final_score(query[t], b) > final_score(query[t], a)

\* C20 amended: the Token-exact weight (950) is above every Prefix weight
\* (900..949): for the same query the app matched by Token-exact scores
\* higher than the app of the same length bracket matched by Prefix, and the
\* Prefix app is not the one returned.
C20_TokenExactAbovePrefix ==
  \A t \in Threads : \A a, b \in ScoreNames :
    TokenAndPrefix(t, a, b) =>
      /\ final_score(query[t], a) > final_score(query[t], b)
      /\ (threshold[t] = FUZZY_THRESHOLD) => (ret[t].match # {} /\ ret[t].match # {b})

\* C20 case: "calc" is a whole word of "calc code" and a prefix of
\* "calculator"; the call returned "calc code".
C20_Witness ==
  \E t \in Threads :
    /\ TokenAndPrefix(t, S_calc_code, S_calculator)
    /\ query[t] = S_calc
    /\ threshold[t] = FUZZY_THRESHOLD
    /\ ret[t].match = {S_calc_code}

\* the labels registered for the item at position i of items
AliasesOf(i) ==
  {candidate_labels[k] :
     k \in {n \in 1..Len(candidate_labels) : candidate_to_item[n] = i - 1}}

\* the folder lookup failed somewhere: a special-folder lookup raised or left
\* an empty path, or a folder could not be listed
FolderLookupFailed(env) ==
  \/ env.raise_at # 0
  \/ env.blank # {}
  \/ \E f \in WellKnownSet : env.listing[f].status = "denied"

\* no path can be had for the well-known folder f: its special-folder lookup
\* did not deliver one and it was not found under the home directory
NoPathFor(env, f) ==
  LET nth == CHOOSE i \in 1..Len(WellKnown) : WellKnown[i] = f
  IN  IF env.raise_at = 0 THEN f \in env.blank
      ELSE /\ f \notin env.home
           /\ (nth >= env.raise_at \/ f \in env.blank)

C17_NameAmongAliases ==
  /\ Len(candidate_labels) = Len(candidate_to_item)
  /\ \A i \in 1..Len(items) :
       /\ AliasesOf(i) # {}
       /\ items[i].name \in AliasesOf(i)
       /\ items[i].name = normalize_name(items[i].name)

\* C17 case: the index holds the app "vs code" (from the cache entry
\* "VS  Code"), the folder "documents" and its sub-folder "my work", each
\* with several aliases.
C17_Witness ==
  /\ load_pc = "ready"
  /\ cache_before = JsonDict(<<AppEntry(L_VS_Code_sp, P_code_exe)>>)
  /\ \E i, j, k \in 1..Len(items) :
       /\ items[i].type = "app" /\ items[i].name = L_vs_code
       /\ Cardinality(AliasesOf(i)) = 4
       /\ items[j].type = "folder" /\ items[j].name = F_documents
       /\ items[k].type = "folder" /\ items[k].name = normalize_name(Sub_my_work)
       /\ Cardinality(AliasesOf(k)) = 4

\* the cache file cannot be parsed as JSON text
Unparsable(file) == file.kind \in {"not_json", "not_utf8"}

\* C18: at index load application discovery runs if and only if the cache
\* file is missing or unparsable; when it runs the cache file is overwritten
\* with the discovery result; when the cache is present and parsable it is
\* used as the app list and left unchanged.
C18_DiscoveryIffNoUsableCache ==
  (load_pc \notin {"unloaded", "start"}) =>
    /\ discovered <=> (cache_before.kind = "missing" \/ Unparsable(cache_before))
    /\ discovered =>
         /\ installed_apps.isdict
         /\ cache_file = JsonDict(installed_apps.entries)
    /\ (cache_before.kind = "json") =>
         /\ cache_file = cache_before
         /\ installed_apps = [isdict |-> cache_before.isdict,
                              entries |-> cache_before.entries]

\* C21: in _launch_windows_app, when the first method for an "appid:" or
\* "package:" descriptor (the PowerShell Start-Process call) ends with a
\* timeout or a non-zero exit code, the next fallback method is tried: the
\* call does not end with that one method attempted.
C21_FirstFailureFallsBack ==
  \A t \in Threads :
    ( /\ Done(t, "launch")
      /\ system = "windows"
      /\ Len(attempted[t]) >= 1
      /\ attempted[t][1].method = "powershell Start-Process"
      /\ ~attempted[t][1].ok )
      => Len(attempted[t]) >= 2

\* the number of launch methods in the platform's ordered list
\* (_launch_macos_app: one; _launch_linux_app: the command list;
\* _launch_windows_app: at most three on any one branch)
ChainLength ==
  IF system = "darwin" THEN 1
  ELSE IF system = "linux" THEN Len(linux_commands)
  ELSE IF system = "windows" THEN 3
  ELSE 0

Places(sys, env) ==
  IF sys = "windows" THEN Len(env.queries) + Len(env.menus)
  ELSE Len(env.dirs)

\* what place k yields when it is scanned on its own
Yield(sys, env, k) ==
  IF sys = "darwin" THEN scan_dir("macos", << >>, k, env.dirs[k], FirstBin).apps
  ELSE IF sys = "linux"
    THEN scan_dir(IF k < FirstBin THEN "desktop" ELSE "bin", << >>, k,
                  env.dirs[k], FirstBin).apps
  ELSE IF k = 1 THEN windows_query("start_apps", << >>, env.queries[1]).apps
  ELSE IF k = 2 THEN windows_query("appx", << >>, env.queries[2]).apps
  ELSE IF env.menus[k - 2].status = "ok"
    THEN shortcut_items(<< >>, k - 2, env.menus[k - 2].listing, 1)
  ELSE << >>

\* the published index, once discover_apps has returned
Published == CHOOSE idx \in app_cache : TRUE

\* C23: within one discovery pass, when two sources yield the same
\* normalized name the index keeps the descriptor of the first-seen source
\* (which on windows is the structured one when a query and a shortcut
\* yield the name).
C23_FirstSeenWins ==
  scan_pc = "returned" =>
    \A i \in 1..Len(Published) :
      \A k \in 1..Places(system, scan_env) :
        HasKey(Yield(system, scan_env, k), Published[i].name)
          => Published[i].path.src <= k

\* place k of the pass failed: its listing raised OSError, or its query
\* ended with a non-zero exit code, a timeout or output that is not JSON
PlaceFailed(sys, env, k) ==
  IF sys = "windows"
    THEN IF k <= Len(env.queries)
           THEN env.queries[k].status \in {"nonzero", "timeout", "badjson"}
           ELSE env.menus[k - Len(env.queries)].status = "oserror"
    ELSE env.dirs[k].status = "oserror"

\* C24: discover_apps never raises, and after the pass the index holds every
\* name yielded by every source that did not fail, whichever other sources
\* failed.
C24_OtherSourcesKept ==
  /\ scan_pc # "escaped"
  /\ scan_pc = "returned" =>
       \A k \in 1..Places(system, scan_env) :
         ~PlaceFailed(system, scan_env, k) =>
           \A i \in 1..Len(Yield(system, scan_env, k)) :
             HasKey(Published, Yield(system, scan_env, k)[i].name)

\* the entries of an index that were taken from the bin directories
BinEntries(idx) == SelectSeq(idx, LAMBDA e : e.path.src >= FirstBin)

\* C25: in Linux discovery the cap applies to the bin-scanned entries: the
\* index holds at most MAX_APPS_LIMIT entries taken from the bin
\* directories, and as long as fewer have been taken every eligible
\* executable of a readable bin directory is added, however many desktop
\* entries were found.
C25_CapCountsBinEntries ==
  (scan_pc = "returned" /\ system = "linux") =>
    /\ Len(BinEntries(Published)) <= MAX_APPS_LIMIT
    /\ Len(BinEntries(Published)) < MAX_APPS_LIMIT =>
         \A k \in FirstBin..Len(scan_env.dirs) :
           scan_env.dirs[k].status = "ok" =>
             \A i \in 1..Len(scan_env.dirs[k].listing) :
               eligible(scan_env.dirs[k].listing[i]) =>
                 HasKey(BinEntries(Published),
                        lower(scan_env.dirs[k].listing[i].item))

\* C26: on every path through POST /transcribe the temporary files of the
\* request have been deleted by the time its response or HTTP error is
\* produced.
C26_NoTempFileLeft ==
  \A r \in Requests :
    req_pc[r] = "responded" =>
      /\ <<r, "upload">> \notin temp_files
      /\ <<r, "wav">> \notin temp_files

\* the bytes of the events ev[from], ev[from + 1], ...
RECURSIVE FramesFrom(_, _)
FramesFrom(ev, from) ==
  IF from > Len(ev) THEN << >> ELSE frame(ev[from]) \o FramesFrom(ev, from + 1)

\* C27: an event written by send_event is read back by receive_event as the
\* same header and the same payload, and between two reads the stream is at
\* the start of the next event written.
C27_FramingRoundTrip ==
  /\ recv_pc # "raised"
  /\ Len(received) <= Len(sent)
  /\ \A k \in 1..Len(received) :
       k <= Len(sent) => received[k] = sent[k]
  /\ recv_pc = "idle" => wire = FramesFrom(sent, Len(received) + 1)

\* C28: after any sequence of constructor calls, cleanup() and shutdown(),
\* the object TranscriptionService() returns holds a thread pool that has
\* not been shut down and a model.
C28_ConstructedIsUsable ==
  last_call = "construct" =>
    \A i \in obtained :
      /\ instances[i].initialized
      /\ instances[i].executor \in 1..Len(pools)
      /\ ~pools[instances[i].executor]
      /\ instances[i].model \in 1..models

\* C29: execute_shell_command never causes a program outside the platform's
\* safe-command list to run: either every program the shell executed is in
\* the list, or the call returned "Command not allowed" and nothing ran.
C29_OnlySafePrograms ==
  \/ started \subseteq safe_commands(system)
  \/ shell_pc = "returned" /\ shell_result.error = "Command not allowed"
       /\ started = {}

\* C30: in run_assistant, once the conversation window has elapsed or the
\* user has said an exit phrase, the conversation loop ends and the assistant
\* is waiting for the wake word again, whatever the transcription requests
\* return.
InConversation == asst_pc \in {"recording", "posting"}

C30_ConversationEnds ==
  /\ (InConversation /\ elapsed_sec > conversation_window_sec)
       ~> (asst_pc = "waiting")
  /\ (asst_pc = "posting" /\ is_exit(command_of(utterance)))
       ~> (asst_pc = "waiting")

====
